---- MODULE Spec2Model ----
(***************************************************************************)
(* CRayEngine simulation core: the command bus (ring buffer with snapshot  *)
(* iterators), the entity registry (free list, generations), the entity    *)
(* system (deferred SPAWN / CLONE / DESTROY with hooks), the spatial hash,  *)
(* the physics update and the engine frame that drives them.               *)
(*                                                                         *)
(* Fourteen specifications share the variables:                            *)
(*   SpecBus   the command bus alone, used the way the engine uses it:     *)
(*             pushes at any time, consumption passes that iterate a       *)
(*             snapshot to its end, and the end-of-frame flush;            *)
(*   SpecReg   the registry alone, under direct EntityManager calls;       *)
(*   SpecCmd   the entity and physics command handlers applied to          *)
(*             commands with live, reserved, stale and invalid targets;    *)
(*   SpecHooks the hook tables and the destroy dispatch loop, in a debug   *)
(*             and in a release build;                                     *)
(*   SpecHash  the spatial hash: inserts, removals, clears and queries;    *)
(*   SpecPhase the debug protocol of the bus across the phases of a frame; *)
(*   SpecPhys  PhysicsSystem_Update phase by phase, on circle bodies the   *)
(*             game creates, culls and defines;                            *)
(*   SpecSolve the narrow phase and the contact solver on one pair of      *)
(*             circles;                                                    *)
(*   SpecBroad the broad phase on a registry the game keeps changing;      *)
(*   SpecCount the registry under direct calls, processed commands and     *)
(*             flag commands with any value;                               *)
(*   SpecIter  the bus under clients that keep and flush any iterator;     *)
(*   SpecBound the loops of the physics system on a registry that fills up; *)
(*   SpecChains the node pools of the spatial hash under any calls;        *)
(*   Spec      the engine frame: game logic, the per-domain passes over    *)
(*             the bus, and the end-of-frame cleanup.                      *)
(***************************************************************************)
EXTENDS Integers, Sequences, FiniteSets, TLC

VARIABLES
    bus,        \* CommandBus: buffer, head, tail, consumed_end
    reg,        \* EntityRegistry: the SoA arrays and the counters
    iter,       \* the CommandIterator of the pass in progress
    pc,         \* where the frame (or the bus client) is
    ops,        \* number of API calls made so far (bounded)
    lastOp,     \* the operation that produced this state
    lastRet,    \* what that operation returned
    shadow,     \* history: accepted commands not yet flushed, in push order
    snap,       \* history: shadow when the current iterator was taken
    yielded,    \* history: commands returned by Next on the current iterator
    hist,       \* history of the frame: handles issued, commands applied, ...
    loop,       \* the hook dispatch loop in progress: its locals and the build
    hash,       \* the spatial hash: buckets, node pools, query stamps
    phys        \* the physics update in progress: its locals, the contact stream

vars == <<bus, reg, iter, pc, ops, lastOp, lastRet, shadow, snap, yielded, hist, loop,
          hash, phys>>

----------------------------------------------------------------------------
(* Bounds of the model *)

\* log2 of the ring buffer's capacity (the code: 16384 = 2^14)
BufBits == 1
\* width in bits of the free-running head/tail counters (the code: 32)
CounterBits == 3
\* number of registry slots (the code: MAX_ENTITIES = 16384)
MaxEntities == 3
\* bus operations per behaviour of SpecBus
MaxOps == 5
\* API calls and hook pushes per behaviour of Spec
MaxCalls == 4
\* distinct payload values a command may carry
NumVals == 2
\* width in bits of a slot's generation counter (the code: 32)
GenBits == 1
\* direct registry calls per behaviour of SpecReg
MaxRegOps == 6
\* calls and processed commands per behaviour of SpecCmd
MaxCmdOps == 5
\* capacity of a hook table (the code: MAX_CLONE_HOOKS = MAX_SPAWN_HOOKS =
\* MAX_DESTROY_HOOKS = 8)
MaxHooks == 3
\* calls and hook invocations per behaviour of SpecHooks
MaxHookOps == 5
\* log2 of the grid cell size (the code: SPATIAL_GRID_SHIFT = 7)
GridShift == 1
\* log2 of the number of buckets (the code: SPATIAL_HASH_SIZE = 16384 = 2^14)
HashBits == 1
\* sizes of the node pools (the code: 40000 and 20000)
MaxStatic == 3
MaxDynamic == 2
\* width in bits of the query stamp (the code: 32)
FrameBits == 1
\* spatial hash calls per behaviour of SpecHash
MaxHashOps == 3
\* largest maxResults a query is made with (the code: PHYS_MAX_NEIGHBOURS =
\* 128 in the physics system)
MaxOut == 2
\* sub-steps per physics update (the code: PHYS_SUB_STEPS = 4)
SubSteps == 2
\* solver rounds per sub-step (the code: PHYS_SOLVER_ITERATIONS = 8)
SolverIters == 2
\* capacity of the contact stream (the code: MAX_CONTACTS = 65536)
MaxContacts == 6
\* game calls and physics updates per behaviour of SpecPhys
MaxPhysOps == 4
\* solver rounds per behaviour of SpecSolve
MaxRounds == 8
MaxBroadOps == 5
MaxIterOps == 8
MaxHeld == 2
\* spatial hash calls per behaviour of SpecChains
MaxChainOps == 4

RECURSIVE Pow2(_)
Pow2(n) == IF n = 0 THEN 1 ELSE 2 * Pow2(n - 1)

CMD_BUFFER_SIZE == Pow2(BufBits)
CMD_BUFFER_MASK == CMD_BUFFER_SIZE - 1
CounterMod      == Pow2(CounterBits)
GenMod          == Pow2(GenBits)
MAX_ENTITIES    == MaxEntities
MAX_HOOKS       == MaxHooks
SPATIAL_GRID_SHIFT  == GridShift
SPATIAL_HASH_SIZE   == Pow2(HashBits)
SPATIAL_MAX_STATIC  == MaxStatic
SPATIAL_MAX_DYNAMIC == MaxDynamic
FrameMod            == Pow2(FrameBits)

----------------------------------------------------------------------------
(* Entity handles *)

\* the sentinel id of ENTITY_INVALID.  The code's value is 2^32 - 1; the model
\* uses the largest integer TLC represents: all the code does with it
\* is compare it for equality and against MAX_ENTITIES.
UINT32_MAX == 2147483647

ENTITY_INVALID == [id |-> UINT32_MAX, generation |-> 0]

ENTITY_IS_VALID(e) == e.id # UINT32_MAX

----------------------------------------------------------------------------
(* Command types: the high byte is the domain *)

CMD_DOMAIN_PHYS   == 256
CMD_DOMAIN_ENTITY == 512
CMD_DOMAIN_ANIM   == 768
CMD_DOMAIN_RENDER == 1024

CMD_NONE                   == 0
CMD_PHYS_DEFINE            == CMD_DOMAIN_PHYS + 3
CMD_ENTITY_SPAWN           == CMD_DOMAIN_ENTITY
CMD_ENTITY_SPAWN_UNTRACKED == CMD_DOMAIN_ENTITY + 1
CMD_ENTITY_CLONE           == CMD_DOMAIN_ENTITY + 2
CMD_ENTITY_DESTROY         == CMD_DOMAIN_ENTITY + 3
CMD_ENTITY_ADD_COMPONENT    == CMD_DOMAIN_ENTITY + 4
CMD_ENTITY_REMOVE_COMPONENT == CMD_DOMAIN_ENTITY + 5
CMD_ENTITY_SET_PIVOT        == CMD_DOMAIN_ENTITY + 6
CMD_ENTITY_SET_TYPE         == CMD_DOMAIN_ENTITY + 7
CMD_ENTITY_ADD_FLAGS        == CMD_DOMAIN_ENTITY + 8
CMD_ENTITY_REMOVE_FLAGS     == CMD_DOMAIN_ENTITY + 10
CMD_ANIM_PLAY              == CMD_DOMAIN_ANIM
CMD_RENDER_SETDEPTHMATH    == CMD_DOMAIN_RENDER

\* cmd.type & CMD_DOMAIN_MASK, with CMD_DOMAIN_MASK = 0xFF00 and 16-bit types
CmdDomain(type) == (type \div 256) * 256

\* A Command: type, target entity, and the payload fields the model reads
\* (entityClone.prototype, entityClone.position, a scalar value).  uid is
\* history: the serial number the frame model gives each push.
MkCmd(type, entity, proto, val, uid) ==
    [type |-> type, entity |-> entity, proto |-> proto, val |-> val, uid |-> uid]

ZeroCmd == MkCmd(CMD_NONE, [id |-> 0, generation |-> 0], [id |-> 0, generation |-> 0], 0, 0)

----------------------------------------------------------------------------
(* CommandBus (cre_commandBus.h, cre_commandBus.c) *)

\* unsigned arithmetic on the free-running counters
U32Sub_Signed(a, b) == IF a >= b THEN a - b ELSE b - a
U32Sub(a, b) == (a - b + CounterMod) % CounterMod
U32Inc(a)    == (a + 1) % CounterMod

\* index & CMD_BUFFER_MASK
MaskIndex_WrongMask(i) == i % CMD_BUFFER_MASK
MaskIndex(i) == i % (CMD_BUFFER_MASK + 1)

\* the phase tags of the debug protocol
BUS_PHASE_OPEN == 0
BUS_PHASE_SIMULATION == 1
BUS_PHASE_RENDER == 2

\* current_phase and debug_forbidden_domain exist in debug builds only
CommandBus_Init ==
    [buffer |-> [i \in 0..(CMD_BUFFER_SIZE - 1) |-> ZeroCmd],
     head |-> 0, tail |-> 0, consumed_end |-> 0,
     current_phase |-> BUS_PHASE_OPEN, debug_forbidden_domain |-> 0]

CommandBus_Count(b) == U32Sub(b.head, b.tail)

CommandBus_IsEmpty(b) == b.head = b.tail

CommandBus_IsFull_OffByOne(b) == U32Sub(b.head, b.tail) > CMD_BUFFER_SIZE
CommandBus_IsFull(b) == U32Sub(b.head, b.tail) >= CMD_BUFFER_SIZE

\* CommandBus_Push: the bus afterwards and the value returned
CommandBus_Push(b, cmd) ==
    IF CommandBus_IsFull(b)
    THEN [bus |-> b, ok |-> FALSE]
    ELSE [bus |-> [b EXCEPT !.buffer[MaskIndex(b.head)] = cmd,
                            !.head = U32Inc(b.head)],
          ok |-> TRUE]

\* CommandBus_GetIterator: the snapshot, and the bus with consumed_end set
CommandBus_GetIterator(b) ==
    [iter |-> [current |-> b.tail, end |-> b.head],
     bus  |-> [b EXCEPT !.consumed_end = b.head]]

\* CommandBus_Next: whether a command is available, the command, the iterator
CommandBus_Next_LiveHead(b, it) ==
    IF it.current = b.head
    THEN [ok |-> FALSE, cmd |-> ZeroCmd, iter |-> it]
    ELSE [ok |-> TRUE, cmd |-> b.buffer[MaskIndex(it.current)],
          iter |-> [it EXCEPT !.current = U32Inc(it.current)]]
CommandBus_Next_Backwards(b, it) ==
    IF it.current = it.end
    THEN [ok |-> FALSE, cmd |-> ZeroCmd, iter |-> it]
    ELSE [ok |-> TRUE,
          cmd |-> b.buffer[MaskIndex(U32Sub(U32Sub(it.end, 1), U32Sub(it.current, b.tail)))],
          iter |-> [it EXCEPT !.current = U32Inc(it.current)]]
CommandBus_Next(b, it) ==
    IF it.current = it.end
    THEN [ok |-> FALSE, cmd |-> ZeroCmd, iter |-> it]
    ELSE [ok |-> TRUE, cmd |-> b.buffer[MaskIndex(it.current)],
          iter |-> [it EXCEPT !.current = U32Inc(it.current)]]

CommandIterator_Remaining(it) == U32Sub(it.end, it.current)

CommandBus_Flush_ToCurrent(b, it) == [b EXCEPT !.tail = it.current]
CommandBus_Flush(b, it) == [b EXCEPT !.tail = it.end]

\* the assertions at the head of CommandBus_Push, compiled in debug builds:
\* whether they hold
CommandBus_PushAsserts(b, cmd) ==
    /\ (b.current_phase = BUS_PHASE_RENDER)
          => (CmdDomain(cmd.type) = CMD_DOMAIN_RENDER \/ cmd.type = CMD_NONE)
    /\ b.debug_forbidden_domain = 0 \/ CmdDomain(cmd.type) # b.debug_forbidden_domain

----------------------------------------------------------------------------
(* EntityRegistry and EntityManager (entity_registry.h, entity_manager.c) *)

\* state flags and component bits are modelled as sets of bit names:
\* a | b is union, a & ~b is set difference, a & b is intersection
FLAG_ACTIVE   == "FLAG_ACTIVE"
FLAG_SLEEPING == "FLAG_SLEEPING"
FLAG_CULLED   == "FLAG_CULLED"
FLAG_STATIC   == "FLAG_STATIC"
FLAG_ALWAYS_AWAKE == "FLAG_ALWAYS_AWAKE"

COMP_NONE           == {}
COMP_PHYSICS        == "COMP_PHYSICS"
COMP_COLLISION_AABB == "COMP_COLLISION_AABB"
COMP_COLLISION_Circle == "COMP_COLLISION_Circle"
COMP_ANIMATION      == "COMP_ANIMATION"

\* flags a clone does not inherit from its prototype
CLONE_FLAGS_SCRUB_MASK == {FLAG_SLEEPING, FLAG_CULLED}

Slots == 0..(MAX_ENTITIES - 1)

\* the hook tables of reg->events: per table the callback array, its count
\* and the is_dispatching flag
Tables == {"clone", "spawn", "destroy"}
NULL == "NULL"
HookSlots == 0..(MAX_HOOKS - 1)
EmptyTable == [hooks |-> [i \in HookSlots |-> NULL], count |-> 0, is_dispatching |-> FALSE]

Handle(id, gen) == [id |-> id, generation |-> gen]

\* the free list is a stack: high indices at the bottom, low at the top
FreeListInit == [i \in Slots |-> (MAX_ENTITIES - 1) - i]

EntityManager_Init ==
    [pos             |-> [i \in Slots |-> 0],
     vel             |-> [i \in Slots |-> 0],
     size            |-> [i \in Slots |-> 0],
     anim_timers     |-> [i \in Slots |-> 0],
     inv_mass        |-> [i \in Slots |-> 0],
     drag            |-> [i \in Slots |-> 0],
     types           |-> [i \in Slots |-> 0],
     pivot           |-> [i \in Slots |-> 0],
     events          |-> [t \in Tables |-> EmptyTable],
     component_masks |-> [i \in Slots |-> COMP_NONE],
     state_flags     |-> [i \in Slots |-> {}],
     generations     |-> [i \in Slots |-> 0],
     free_list       |-> FreeListInit,
     free_count      |-> MAX_ENTITIES,
     active_count    |-> 0,
     max_used_bound  |-> 0,
     oob             |-> FALSE]

EntityManager_IsValid(r, e) ==
    /\ e.id < MAX_ENTITIES
    /\ FLAG_ACTIVE \in r.state_flags[e.id]
    /\ r.generations[e.id] = e.generation

EntityRegistry_IsAlive(r, e) ==
    /\ e.id < MAX_ENTITIES
    /\ FLAG_ACTIVE \in r.state_flags[e.id]
    /\ r.generations[e.id] = e.generation

\* free_list[free_count++] = id.  A push onto a full list writes past the
\* array, which is undefined: the model records it in oob and goes no further
\* (no reachable state has oob set, see C2).
FreeListPush_Bottom(r, id) ==
    IF r.free_count >= MAX_ENTITIES
    THEN [r EXCEPT !.oob = TRUE]
    ELSE [r EXCEPT !.free_list = [i \in Slots |->
                                    IF i = 0 THEN id
                                    ELSE IF i <= r.free_count THEN r.free_list[i - 1]
                                    ELSE r.free_list[i]],
                   !.free_count = r.free_count + 1]
FreeListPush(r, id) ==
    IF r.free_count >= MAX_ENTITIES
    THEN [r EXCEPT !.oob = TRUE]
    ELSE [r EXCEPT !.free_list[r.free_count] = id,
                   !.free_count = r.free_count + 1]

\* EntityManager_Create: the registry afterwards and the handle returned
EntityManager_Create_NoPop(r, type, pos, comps, flags) ==
    IF r.free_count = 0
    THEN [reg |-> r, e |-> ENTITY_INVALID]
    ELSE LET index == r.free_list[r.free_count - 1]
             gen   == r.generations[index]
         IN [reg |-> [r EXCEPT !.component_masks[index] = comps,
                               !.state_flags[index] = flags \cup {FLAG_ACTIVE},
                               !.types[index] = type,
                               !.pos[index] = pos,
                               !.vel[index] = 0,
                               !.size[index] = 32,
                               !.anim_timers[index] = 0,
                               !.active_count = r.active_count + 1,
                               !.max_used_bound =
                                   IF index >= r.max_used_bound
                                   THEN index + 1 ELSE r.max_used_bound],
             e |-> Handle(index, gen)]
EntityManager_Create(r, type, pos, comps, flags) ==
    IF r.free_count = 0
    THEN [reg |-> r, e |-> ENTITY_INVALID]
    ELSE LET index == r.free_list[r.free_count - 1]
             gen   == r.generations[index]
         IN [reg |-> [r EXCEPT !.free_count = r.free_count - 1,
                               !.component_masks[index] = comps,
                               !.state_flags[index] = flags \cup {FLAG_ACTIVE},
                               !.types[index] = type,
                               !.pos[index] = pos,
                               !.vel[index] = 0,
                               !.size[index] = 32,
                               !.anim_timers[index] = 0,
                               !.active_count = r.active_count + 1,
                               !.max_used_bound =
                                   IF index >= r.max_used_bound
                                   THEN index + 1 ELSE r.max_used_bound],
             e |-> Handle(index, gen)]

\* EntityManager_Destroy
EntityManager_Destroy_NoValidation(r, e) ==
    IF e.id >= MAX_ENTITIES THEN r
    ELSE FreeListPush([r EXCEPT !.component_masks[e.id] = COMP_NONE,
                                !.state_flags[e.id] = {},
                                !.generations[e.id] = (r.generations[e.id] + 1) % GenMod,
                                !.active_count = r.active_count - 1],
                      e.id)
EntityManager_Destroy_NoBump(r, e) ==
    IF e.id >= MAX_ENTITIES THEN r
    ELSE IF FLAG_ACTIVE \notin r.state_flags[e.id] THEN r
    ELSE IF r.generations[e.id] # e.generation THEN r
    ELSE FreeListPush([r EXCEPT !.component_masks[e.id] = COMP_NONE,
                                !.state_flags[e.id] = {},
                                !.active_count = r.active_count - 1],
                      e.id)
EntityManager_Destroy(r, e) ==
    IF e.id >= MAX_ENTITIES THEN r
    ELSE IF FLAG_ACTIVE \notin r.state_flags[e.id] THEN r
    ELSE IF r.generations[e.id] # e.generation THEN r
    ELSE FreeListPush([r EXCEPT !.component_masks[e.id] = COMP_NONE,
                                !.state_flags[e.id] = {},
                                !.generations[e.id] = (r.generations[e.id] + 1) % GenMod,
                                !.active_count = r.active_count - 1],
                      e.id)

\* EntityManager_Reset: every array but generations is cleared and the free
\* list is rebuilt
EntityManager_Reset(r) ==
    [r EXCEPT !.component_masks = [i \in Slots |-> COMP_NONE],
              !.state_flags = [i \in Slots |-> {}],
              !.pos = [i \in Slots |-> 0],
              !.vel = [i \in Slots |-> 0],
              !.size = [i \in Slots |-> 0],
              !.types = [i \in Slots |-> 0],
              !.anim_timers = [i \in Slots |-> 0],
              !.free_list = FreeListInit,
              !.free_count = MAX_ENTITIES,
              !.active_count = 0,
              !.max_used_bound = 0]

\* EntityManager_ReserveSlot: the same pop as Create, no field is initialized
EntityManager_ReserveSlot(r) ==
    IF r.free_count = 0
    THEN [reg |-> r, e |-> ENTITY_INVALID]
    ELSE LET index == r.free_list[r.free_count - 1]
         IN [reg |-> [r EXCEPT !.free_count = r.free_count - 1],
             e |-> Handle(index, r.generations[index])]

\* EntityManager_ReturnReservedSlot: the slot goes back on the free list
EntityManager_ReturnReservedSlot(r, e) ==
    IF e.id >= MAX_ENTITIES THEN r ELSE FreeListPush(r, e.id)

----------------------------------------------------------------------------
(* EntitySystem (cre_entitySystem.c) and the entity API (cre_entityAPI.c) *)

EntitySystem_CopyPrototype_KeepsMotion(r, dst_id, src_id, position) ==
    [r EXCEPT !.size[dst_id] = r.size[src_id],
              !.component_masks[dst_id] = r.component_masks[src_id],
              !.state_flags[dst_id] =
                  (r.state_flags[src_id] \ CLONE_FLAGS_SCRUB_MASK) \cup {FLAG_ACTIVE},
              !.types[dst_id] = r.types[src_id],
              !.pivot[dst_id] = r.pivot[src_id],
              !.inv_mass[dst_id] = r.inv_mass[src_id],
              !.drag[dst_id] = r.drag[src_id],
              !.pos[dst_id] = position,
              !.anim_timers[dst_id] = r.anim_timers[src_id],
              !.vel[dst_id] = r.vel[src_id],
              !.max_used_bound =
                  IF dst_id >= r.max_used_bound THEN dst_id + 1 ELSE r.max_used_bound,
              !.active_count = r.active_count + 1]
EntitySystem_CopyPrototype(r, dst_id, src_id, position) ==
    [r EXCEPT !.size[dst_id] = r.size[src_id],
              !.component_masks[dst_id] = r.component_masks[src_id],
              !.state_flags[dst_id] =
                  (r.state_flags[src_id] \ CLONE_FLAGS_SCRUB_MASK) \cup {FLAG_ACTIVE},
              !.types[dst_id] = r.types[src_id],
              !.pivot[dst_id] = r.pivot[src_id],
              !.inv_mass[dst_id] = r.inv_mass[src_id],
              !.drag[dst_id] = r.drag[src_id],
              !.pos[dst_id] = position,
              !.anim_timers[dst_id] = 0,
              !.vel[dst_id] = 0,
              !.max_used_bound =
                  IF dst_id >= r.max_used_bound THEN dst_id + 1 ELSE r.max_used_bound,
              !.active_count = r.active_count + 1]

\* case CMD_ENTITY_SPAWN / CMD_ENTITY_SPAWN_UNTRACKED / CMD_ENTITY_CLONE, up to
\* the hook dispatch: the registry afterwards, and whether dst was set up
EntitySystem_SpawnOrClone_NoSrcCheck(r, cmd) ==
    LET dst == cmd.entity
        src == cmd.proto
    IN IF dst.id = src.id
       THEN [reg |-> EntityManager_ReturnReservedSlot(r, dst), ok |-> FALSE]
       ELSE IF dst.id >= MAX_ENTITIES \/ src.id >= MAX_ENTITIES
       THEN [reg |-> IF dst.id < MAX_ENTITIES
                     THEN EntityManager_ReturnReservedSlot(r, dst) ELSE r,
             ok |-> FALSE]
       ELSE IF FLAG_ACTIVE \in r.state_flags[dst.id]
       THEN [reg |-> EntityManager_ReturnReservedSlot(r, dst), ok |-> FALSE]
       ELSE IF r.generations[dst.id] # dst.generation
       THEN [reg |-> EntityManager_ReturnReservedSlot(r, dst), ok |-> FALSE]
       ELSE [reg |-> EntitySystem_CopyPrototype(r, dst.id, src.id, cmd.val),
             ok |-> TRUE]
EntitySystem_SpawnOrClone(r, cmd) ==
    LET dst == cmd.entity
        src == cmd.proto
    IN IF dst.id = src.id
       THEN [reg |-> EntityManager_ReturnReservedSlot(r, dst), ok |-> FALSE]
       ELSE IF dst.id >= MAX_ENTITIES \/ src.id >= MAX_ENTITIES
       THEN [reg |-> IF dst.id < MAX_ENTITIES
                     THEN EntityManager_ReturnReservedSlot(r, dst) ELSE r,
             ok |-> FALSE]
       ELSE IF FLAG_ACTIVE \in r.state_flags[dst.id]
       THEN [reg |-> EntityManager_ReturnReservedSlot(r, dst), ok |-> FALSE]
       ELSE IF r.generations[dst.id] # dst.generation
       THEN [reg |-> EntityManager_ReturnReservedSlot(r, dst), ok |-> FALSE]
       ELSE IF ~EntityRegistry_IsAlive(r, src)
       THEN [reg |-> EntityManager_ReturnReservedSlot(r, dst), ok |-> FALSE]
       ELSE [reg |-> EntitySystem_CopyPrototype(r, dst.id, src.id, cmd.val),
             ok |-> TRUE]

\* case CMD_ENTITY_DESTROY, the part after the hook dispatch
EntitySystem_DestroySlot_NoPush(r, id) ==
    [r EXCEPT !.component_masks[id] = COMP_NONE,
              !.state_flags[id] = r.state_flags[id] \ {FLAG_ACTIVE},
              !.generations[id] = (r.generations[id] + 1) % GenMod,
              !.active_count = r.active_count - 1]
EntitySystem_DestroySlot(r, id) ==
    FreeListPush([r EXCEPT !.component_masks[id] = COMP_NONE,
                           !.state_flags[id] = r.state_flags[id] \ {FLAG_ACTIVE},
                           !.generations[id] = (r.generations[id] + 1) % GenMod,
                           !.active_count = r.active_count - 1],
                 id)

\* the cases of EntitySystem_ProcessCommands that update an entity in place,
\* and case CMD_ENTITY_DESTROY: each is guarded by EntityRegistry_IsAlive
EntitySystem_ApplyCommand(r, cmd) ==
    IF ~EntityRegistry_IsAlive(r, cmd.entity) THEN r
    ELSE LET id == cmd.entity.id IN
         IF cmd.type = CMD_ENTITY_DESTROY THEN EntitySystem_DestroySlot(r, id)
         ELSE IF cmd.type = CMD_ENTITY_ADD_COMPONENT
         THEN [r EXCEPT !.component_masks[id] = r.component_masks[id] \cup cmd.val]
         ELSE IF cmd.type = CMD_ENTITY_REMOVE_COMPONENT
         THEN [r EXCEPT !.component_masks[id] = r.component_masks[id] \ cmd.val]
         ELSE IF cmd.type = CMD_ENTITY_SET_PIVOT
         THEN [r EXCEPT !.pivot[id] = cmd.val]
         ELSE IF cmd.type = CMD_ENTITY_SET_TYPE
         THEN [r EXCEPT !.types[id] = cmd.val]
         ELSE IF cmd.type = CMD_ENTITY_ADD_FLAGS
         THEN [r EXCEPT !.state_flags[id] = r.state_flags[id] \cup cmd.val]
         ELSE IF cmd.type = CMD_ENTITY_REMOVE_FLAGS
         THEN [r EXCEPT !.state_flags[id] = r.state_flags[id] \ cmd.val]
         ELSE r

\* entityAPI_Spawn / entityAPI_SpawnUntracked: reserve, push, compensate
entityAPI_Spawn_NoReturn(r, b, type, prototype, position, uid) ==
    LET res == EntityManager_ReserveSlot(r) IN
    IF ~ENTITY_IS_VALID(res.e)
    THEN [reg |-> r, bus |-> b, e |-> ENTITY_INVALID, pushed |-> FALSE]
    ELSE LET p == CommandBus_Push(b, MkCmd(type, res.e, prototype, position, uid)) IN
         IF ~p.ok
         THEN [reg |-> res.reg, bus |-> p.bus, e |-> ENTITY_INVALID, pushed |-> FALSE]
         ELSE [reg |-> res.reg, bus |-> p.bus, e |-> res.e, pushed |-> TRUE]
entityAPI_Spawn(r, b, type, prototype, position, uid) ==
    LET res == EntityManager_ReserveSlot(r) IN
    IF ~ENTITY_IS_VALID(res.e)
    THEN [reg |-> r, bus |-> b, e |-> ENTITY_INVALID, pushed |-> FALSE]
    ELSE LET p == CommandBus_Push(b, MkCmd(type, res.e, prototype, position, uid)) IN
         IF ~p.ok
         THEN [reg |-> EntityManager_ReturnReservedSlot(res.reg, res.e),
               bus |-> p.bus, e |-> ENTITY_INVALID, pushed |-> FALSE]
         ELSE [reg |-> res.reg, bus |-> p.bus, e |-> res.e, pushed |-> TRUE]

\* entityAPI_Clone: push, and return dst's slot when the bus is full
entityAPI_Clone(r, b, dst, prototype, position, uid) ==
    LET p == CommandBus_Push(b, MkCmd(CMD_ENTITY_CLONE, dst, prototype, position, uid)) IN
    IF ~p.ok
    THEN [reg |-> EntityManager_ReturnReservedSlot(r, dst), bus |-> p.bus, pushed |-> FALSE]
    ELSE [reg |-> r, bus |-> p.bus, pushed |-> TRUE]

\* entityAPI_Destroy and the other one-command producers: push, log on failure
PushCommand(b, cmd) == CommandBus_Push(b, cmd)

----------------------------------------------------------------------------
(* PhysicsSystem command handling (physics_system.c) *)

\* physDef.drag of the game's CMD_PHYS_DEFINE commands, 2.0 in thousandths
PHYS_DEF_DRAG == 2000

\* ConfigureBody.  inv_mass is kept as 0 (infinite mass) or 1 (some
\* positive value 1/mass); area is that of the AABB or the circle shape; the
\* material is MAT_DEFAULT (density 1), the one the game's commands name.
ConfigureBody(r, id, is_static) ==
    IF id >= MAX_ENTITIES THEN r
    ELSE LET comps == r.component_masks[id]
             area == IF COMP_COLLISION_AABB \in comps \/ COMP_COLLISION_Circle \in comps
                     THEN r.size[id] * r.size[id] ELSE 0
         IN IF is_static
            THEN [r EXCEPT !.inv_mass[id] = 0,
                           !.state_flags[id] = r.state_flags[id] \cup {FLAG_STATIC},
                           !.drag[id] = PHYS_DEF_DRAG]
            ELSE [r EXCEPT !.inv_mass[id] = IF area > 0 THEN 1 ELSE 0,
                           !.state_flags[id] = r.state_flags[id] \ {FLAG_STATIC},
                           !.drag[id] = PHYS_DEF_DRAG]

\* CMD_PHYS_FLAG_STATIC set in physDef.flags
PhysDefIsStatic(cmd) == cmd.val = 1

\* one turn of the loop of PhysicsSystem_ProcessCommands
PhysicsSystem_ProcessCommand(r, cmd) ==
    IF cmd.type = CMD_PHYS_DEFINE
    THEN ConfigureBody(r, cmd.entity.id, PhysDefIsStatic(cmd))
    ELSE r

----------------------------------------------------------------------------
(* SpatialHash (cre_spatialHash.c) *)

SPATIAL_NULL_IDX == UINT32_MAX
SPATIAL_HASH_MASK == SPATIAL_HASH_SIZE - 1

\* val >> SPATIAL_GRID_SHIFT, an arithmetic shift: the floor of the quotient
WORLD_TO_GRID(val) == val \div Pow2(SPATIAL_GRID_SHIFT)

\* (int16_t)c
Int16(c) == ((c + 32768) % 65536) - 32768

\* a ^ b on non-negative integers
RECURSIVE BitXor(_, _)
BitXor(a, b) ==
    IF a = 0 THEN b
    ELSE IF b = 0 THEN a
    ELSE ((a + b) % 2) + 2 * BitXor(a \div 2, b \div 2)

\* GetHashIndex: the unsigned products are taken modulo the table size,
\* which divides 2^32, before the xor and the mask
HASH_P1 == 73856093
HASH_P2 == 19349663
GetHashIndex(cellX, cellY) ==
    BitXor((cellX * (HASH_P1 % SPATIAL_HASH_SIZE)) % SPATIAL_HASH_SIZE,
           (cellY * (HASH_P2 % SPATIAL_HASH_SIZE)) % SPATIAL_HASH_SIZE)
      % (SPATIAL_HASH_MASK + 1)

ZeroNode == [entityID |-> 0, nextIdx |-> 0, gridX |-> 0, gridY |-> 0]

\* the static arrays after SpatialHash_ClearAll, which PhysicsSystem_Init calls
SpatialHash_Init ==
    [staticBuckets     |-> [b \in 0..(SPATIAL_HASH_SIZE - 1) |-> SPATIAL_NULL_IDX],
     dynamicBuckets    |-> [b \in 0..(SPATIAL_HASH_SIZE - 1) |-> SPATIAL_NULL_IDX],
     staticNodes       |-> [n \in 0..(SPATIAL_MAX_STATIC - 1) |-> ZeroNode],
     dynamicNodes      |-> [n \in 0..(SPATIAL_MAX_DYNAMIC - 1) |-> ZeroNode],
     staticPoolIdx     |-> 0,
     dynamicPoolIdx    |-> 0,
     staticFreeHead    |-> SPATIAL_NULL_IDX,
     lastSeenFrame     |-> [i \in Slots |-> 0],
     currentQueryFrame |-> 0]

\* the cells a rectangle covers, in the order of the two nested loops
CellsOf(rect) ==
    LET minX == WORLD_TO_GRID(rect.x)
        minY == WORLD_TO_GRID(rect.y)
        maxX == WORLD_TO_GRID(rect.x + rect.w)
        maxY == WORLD_TO_GRID(rect.y + rect.h)
        cols == maxX - minX + 1
        rows == maxY - minY + 1
    IN IF cols <= 0 \/ rows <= 0 THEN <<>>
       ELSE [k \in 1..(cols * rows) |->
               [cx |-> minX + ((k - 1) % cols), cy |-> minY + ((k - 1) \div cols)]]

\* PopStaticNode: the hash afterwards and the node index, from the free list
\* first and from the pool otherwise
PopStaticNode(h) ==
    IF h.staticFreeHead # SPATIAL_NULL_IDX
    THEN [hash |-> [h EXCEPT !.staticFreeHead = h.staticNodes[h.staticFreeHead].nextIdx],
          idx |-> h.staticFreeHead]
    ELSE IF h.staticPoolIdx >= SPATIAL_MAX_STATIC
    THEN [hash |-> h, idx |-> SPATIAL_NULL_IDX]
    ELSE [hash |-> [h EXCEPT !.staticPoolIdx = h.staticPoolIdx + 1],
          idx |-> h.staticPoolIdx]

PushStaticFree_DropsNode(h, idx) == h
PushStaticFree(h, idx) ==
    [h EXCEPT !.staticNodes[idx].nextIdx = h.staticFreeHead,
              !.staticFreeHead = idx]

PopDynamicNode(h) ==
    IF h.dynamicPoolIdx >= SPATIAL_MAX_DYNAMIC
    THEN [hash |-> h, idx |-> SPATIAL_NULL_IDX]
    ELSE [hash |-> [h EXCEPT !.dynamicPoolIdx = h.dynamicPoolIdx + 1],
          idx |-> h.dynamicPoolIdx]

SpatialHash_ClearDynamic_ResetsBothPools(h) ==
    [h EXCEPT !.dynamicBuckets = [b \in 0..(SPATIAL_HASH_SIZE - 1) |-> SPATIAL_NULL_IDX],
              !.dynamicPoolIdx = 0,
              !.staticPoolIdx = 0]
SpatialHash_ClearDynamic(h) ==
    [h EXCEPT !.dynamicBuckets = [b \in 0..(SPATIAL_HASH_SIZE - 1) |-> SPATIAL_NULL_IDX],
              !.dynamicPoolIdx = 0]

SpatialHash_ClearAll(h) ==
    [h EXCEPT !.staticBuckets = [b \in 0..(SPATIAL_HASH_SIZE - 1) |-> SPATIAL_NULL_IDX],
              !.dynamicBuckets = [b \in 0..(SPATIAL_HASH_SIZE - 1) |-> SPATIAL_NULL_IDX],
              !.staticPoolIdx = 0,
              !.dynamicPoolIdx = 0,
              !.staticFreeHead = SPATIAL_NULL_IDX]

\* SpatialHash_AddStatic from cell number k on: one node per cell, linked at
\* the head of the cell's bucket; the function returns when no node is left
RECURSIVE AddStaticFrom(_, _, _, _)
AddStaticFrom_LinksNullNode(h, entityID, cells, k) ==
    IF k > Len(cells) THEN h
    ELSE LET c   == cells[k]
             b   == GetHashIndex(c.cx, c.cy)
             pop == PopStaticNode(h)
         IN IF pop.idx = SPATIAL_NULL_IDX
            THEN [h EXCEPT !.staticBuckets[b] = SPATIAL_NULL_IDX]
            ELSE AddStaticFrom(
                   [pop.hash EXCEPT
                      !.staticNodes[pop.idx] =
                          [entityID |-> entityID, gridX |-> Int16(c.cx),
                           gridY |-> Int16(c.cy), nextIdx |-> pop.hash.staticBuckets[b]],
                      !.staticBuckets[b] = pop.idx],
                   entityID, cells, k + 1)
AddStaticFrom(h, entityID, cells, k) ==
    IF k > Len(cells) THEN h
    ELSE LET c   == cells[k]
             b   == GetHashIndex(c.cx, c.cy)
             pop == PopStaticNode(h)
         IN IF pop.idx = SPATIAL_NULL_IDX THEN h
            ELSE AddStaticFrom(
                   [pop.hash EXCEPT
                      !.staticNodes[pop.idx] =
                          [entityID |-> entityID, gridX |-> Int16(c.cx),
                           gridY |-> Int16(c.cy), nextIdx |-> pop.hash.staticBuckets[b]],
                      !.staticBuckets[b] = pop.idx],
                   entityID, cells, k + 1)

SpatialHash_AddStatic(h, entityID, rect) == AddStaticFrom(h, entityID, CellsOf(rect), 1)

RECURSIVE AddDynamicFrom(_, _, _, _)
AddDynamicFrom(h, entityID, cells, k) ==
    IF k > Len(cells) THEN h
    ELSE LET c   == cells[k]
             b   == GetHashIndex(c.cx, c.cy)
             pop == PopDynamicNode(h)
         IN IF pop.idx = SPATIAL_NULL_IDX THEN h
            ELSE AddDynamicFrom(
                   [pop.hash EXCEPT
                      !.dynamicNodes[pop.idx] =
                          [entityID |-> entityID, gridX |-> Int16(c.cx),
                           gridY |-> Int16(c.cy), nextIdx |-> pop.hash.dynamicBuckets[b]],
                      !.dynamicBuckets[b] = pop.idx],
                   entityID, cells, k + 1)

SpatialHash_AddDynamic(h, entityID, rect) == AddDynamicFrom(h, entityID, CellsOf(rect), 1)

\* the while loop of SpatialHash_RemoveStatic over one bucket: every node of
\* the entity in cell c is unlinked and recycled
RECURSIVE RemoveFromBucket(_, _, _, _, _, _)
RemoveFromBucket(h, entityID, c, b, prev, curr) ==
    IF curr = SPATIAL_NULL_IDX THEN h
    ELSE LET node == h.staticNodes[curr]
             next == node.nextIdx
         IN IF node.entityID = entityID /\ node.gridX = c.cx /\ node.gridY = c.cy
            THEN LET h1 == IF prev = SPATIAL_NULL_IDX
                           THEN [h EXCEPT !.staticBuckets[b] = next]
                           ELSE [h EXCEPT !.staticNodes[prev].nextIdx = next]
                 IN RemoveFromBucket(PushStaticFree(h1, curr), entityID, c, b, prev, next)
            ELSE RemoveFromBucket(h, entityID, c, b, curr, next)

RECURSIVE RemoveStaticFrom(_, _, _, _)
RemoveStaticFrom(h, entityID, cells, k) ==
    IF k > Len(cells) THEN h
    ELSE LET c == cells[k]
             b == GetHashIndex(c.cx, c.cy)
         IN RemoveStaticFrom(
              RemoveFromBucket(h, entityID, c, b, SPATIAL_NULL_IDX, h.staticBuckets[b]),
              entityID, cells, k + 1)

SpatialHash_RemoveStatic(h, entityID, rect) ==
    RemoveStaticFrom(h, entityID, CellsOf(rect), 1)

\* AdvanceQueryFrame: the stamp is incremented; on wrap-around to 0 the
\* per-entity stamps are cleared and the stamp restarts at 1
AdvanceQueryFrame_NoReset(h) ==
    LET f == (h.currentQueryFrame + 1) % FrameMod IN
    IF f = 0
    THEN [h EXCEPT !.currentQueryFrame = 1]
    ELSE [h EXCEPT !.currentQueryFrame = f]
AdvanceQueryFrame(h) ==
    LET f == (h.currentQueryFrame + 1) % FrameMod IN
    IF f = 0
    THEN [h EXCEPT !.lastSeenFrame = [i \in Slots |-> 0], !.currentQueryFrame = 1]
    ELSE [h EXCEPT !.currentQueryFrame = f]

\* MarkSeen: whether the entity was already seen by this query, and the hash
\* with the entity stamped
MarkSeen_NeverDuplicate(h, entityID) ==
    [hash |-> [h EXCEPT !.lastSeenFrame[entityID] = h.currentQueryFrame], dup |-> FALSE]
MarkSeen(h, entityID) ==
    IF h.lastSeenFrame[entityID] = h.currentQueryFrame
    THEN [hash |-> h, dup |-> TRUE]
    ELSE [hash |-> [h EXCEPT !.lastSeenFrame[entityID] = h.currentQueryFrame],
          dup |-> FALSE]

\* the state of a running query: the hash (MarkSeen writes lastSeenFrame),
\* the entries written to results[], and whether the function has returned
\* from inside the loops.
\* if (count >= maxResults) return count; results[count++] = entityID
EmitResult_ChecksAfterWrite(q, entityID, maxResults) ==
    IF Len(q.results) > maxResults
    THEN [q EXCEPT !.returned = TRUE]
    ELSE [q EXCEPT !.results = Append(q.results, entityID)]
EmitResult(q, entityID, maxResults) ==
    IF Len(q.results) >= maxResults
    THEN [q EXCEPT !.returned = TRUE]
    ELSE [q EXCEPT !.results = Append(q.results, entityID)]

\* the while loop of SpatialHash_Query over one chain of one layer
RECURSIVE QueryChain(_, _, _, _, _)
QueryChain(q, nodes, curr, c, maxResults) ==
    IF q.returned \/ curr = SPATIAL_NULL_IDX THEN q
    ELSE LET node == nodes[curr]
             hit  == node.gridX = c.cx /\ node.gridY = c.cy
             m    == MarkSeen(q.hash, node.entityID)
             q1   == IF hit
                     THEN IF m.dup THEN q
                          ELSE EmitResult([q EXCEPT !.hash = m.hash], node.entityID,
                                          maxResults)
                     ELSE q
         IN QueryChain(q1, nodes, node.nextIdx, c, maxResults)

RECURSIVE QueryFrom(_, _, _, _)
QueryFrom(q, cells, k, maxResults) ==
    IF q.returned \/ k > Len(cells) THEN q
    ELSE LET c  == cells[k]
             b  == GetHashIndex(c.cx, c.cy)
             qs == QueryChain(q, q.hash.staticNodes, q.hash.staticBuckets[b], c, maxResults)
             qd == QueryChain(qs, qs.hash.dynamicNodes, qs.hash.dynamicBuckets[b], c,
                              maxResults)
         IN QueryFrom(qd, cells, k + 1, maxResults)

\* SpatialHash_Query: the hash afterwards, results[0 .. count) and count
SpatialHash_Query(h, rect, maxResults) ==
    LET q == QueryFrom([hash |-> AdvanceQueryFrame(h), results |-> <<>>, returned |-> FALSE],
                       CellsOf(rect), 1, maxResults)
    IN [hash |-> q.hash, results |-> q.results, count |-> Len(q.results)]

----------------------------------------------------------------------------
(* PhysicsSystem: the simulation (physics_system.c, config.h) *)

\* Reals are kept in fixed point, in thousandths: positions and sizes in
\* thousandths of a pixel, velocities in thousandths of a pixel per second,
\* times in milliseconds.  A product of two such numbers is divided by Unit
\* and rounded down.  Bodies lie on the x axis: pos_y, vel_y and the y part
\* of every normal are 0 and are not stored.
Unit == 1000

\* (int)x: the conversion truncates toward zero
ToInt(x) == IF x >= 0 THEN x \div Unit ELSE -((-x) \div Unit)

PHYS_GRAVITY_DEF_X      == 0
PHYS_SUB_STEPS          == SubSteps
PHYS_SOLVER_ITERATIONS  == SolverIters
PHYS_SLEEP_EPSILON      == 2000
PHYS_SLOP               == 10
PHYS_CORRECTION_PERCENT == 500
PHYS_MAX_NEIGHBOURS     == MaxOut
MAX_CONTACTS            == MaxContacts
MAX_CORRECTION          == 50000
\* g_materials[MAT_DEFAULT].restitution; every body carries MAT_DEFAULT
MAT_DEFAULT_RESTITUTION == 0

\* collision layers: SET_LAYER(l) and SET_MASK(m) as bit names in state_flags
L_PLAYER == "L_PLAYER"
L_ENEMY  == "L_ENEMY"
Layers == {L_PLAYER, L_ENEMY}
LayerBit(l) == IF l = L_PLAYER THEN "LAYER_PLAYER" ELSE "LAYER_ENEMY"
MaskBit(l)  == IF l = L_PLAYER THEN "MASK_PLAYER" ELSE "MASK_ENEMY"
SET_LAYER(ls) == {LayerBit(l) : l \in ls}
SET_MASK(ls)  == {MaskBit(l) : l \in ls}
GET_LAYER(flags) == {l \in Layers : LayerBit(l) \in flags}
GET_MASK(flags)  == {l \in Layers : MaskBit(l) \in flags}

\* the statics of physics_system.c when no update is running: the contact
\* stream of the last detect pass and, while an update runs, its locals
NoUpdate ==
    [step     |-> 0,      \* the sub-step loop's counter
     iter     |-> 0,      \* the solver loop's counter
     subDt    |-> 0,      \* dt / PHYS_SUB_STEPS
     contacts |-> <<>>]   \* contactStream[0 .. contactCount)

\* the rectangle the physics system hands to the spatial hash for body i
BodyRect(r, i) ==
    [x |-> ToInt(r.pos[i]), y |-> 0, w |-> ToInt(r.size[i]), h |-> ToInt(r.size[i])]

\* the body of the loop of Phase1_Integration.  gravity_scale multiplies a
\* gravity that is (0, 0): PhysicsSystem_SetGravity has no caller.
Phase1_Body_SleepsAlwaysAwake(r, i, dt) ==
    LET flags == r.state_flags[i] IN
    IF \/ FLAG_ACTIVE \notin flags
       \/ COMP_PHYSICS \notin r.component_masks[i]
       \/ flags \cap {FLAG_STATIC, FLAG_SLEEPING} # {}
    THEN r
    ELSE LET v1 == r.vel[i] + (PHYS_GRAVITY_DEF_X * dt) \div Unit
             dragFactor == Unit - (r.drag[i] * dt) \div Unit
             clampedDrag == IF dragFactor > 0 THEN dragFactor ELSE 0
             v2 == (v1 * clampedDrag) \div Unit
             isSlow == v2 * v2 < PHYS_SLEEP_EPSILON * PHYS_SLEEP_EPSILON
         IN [r EXCEPT !.vel[i] = v2,
                      !.pos[i] = r.pos[i] + (v2 * dt) \div Unit,
                      !.state_flags[i] = IF isSlow
                                         THEN flags \cup {FLAG_SLEEPING} ELSE flags]
Phase1_Body(r, i, dt) ==
    LET flags == r.state_flags[i] IN
    IF \/ FLAG_ACTIVE \notin flags
       \/ COMP_PHYSICS \notin r.component_masks[i]
       \/ flags \cap {FLAG_STATIC, FLAG_SLEEPING} # {}
    THEN r
    ELSE LET v1 == r.vel[i] + (PHYS_GRAVITY_DEF_X * dt) \div Unit
             dragFactor == Unit - (r.drag[i] * dt) \div Unit
             clampedDrag == IF dragFactor > 0 THEN dragFactor ELSE 0
             v2 == (v1 * clampedDrag) \div Unit
             isSlow == v2 * v2 < PHYS_SLEEP_EPSILON * PHYS_SLEEP_EPSILON
             canSleep == FLAG_ALWAYS_AWAKE \notin flags
         IN [r EXCEPT !.vel[i] = v2,
                      !.pos[i] = r.pos[i] + (v2 * dt) \div Unit,
                      !.state_flags[i] = IF isSlow /\ canSleep
                                         THEN flags \cup {FLAG_SLEEPING} ELSE flags]

\* for (i = 0; i <= bound; i++)
RECURSIVE Phase1_From(_, _, _)
Phase1_From(r, i, dt) ==
    IF i > r.max_used_bound THEN r
    ELSE Phase1_From(Phase1_Body(r, i, dt), i + 1, dt)

Phase1_Integration(r, dt) == Phase1_From(r, 0, dt)

\* the loop of Phase2_BroadPhase
RECURSIVE Phase2_From(_, _, _)
Phase2_From(r, h, i) ==
    IF i > r.max_used_bound THEN h
    ELSE LET flags == r.state_flags[i] IN
         IF \/ FLAG_ACTIVE \notin flags
            \/ COMP_PHYSICS \notin r.component_masks[i]
            \/ flags \cap {FLAG_STATIC, FLAG_CULLED} # {}
         THEN Phase2_From(r, h, i + 1)
         ELSE Phase2_From(r, SpatialHash_AddDynamic(h, i, BodyRect(r, i)), i + 1)

Phase2_BroadPhase_KeepsOldNodes(r, h) == Phase2_From(r, h, 0)
Phase2_BroadPhase(r, h) == Phase2_From(r, SpatialHash_ClearDynamic(h), 0)

\* the loop of PhysicsSystem_LoadStaticGeometry
RECURSIVE LoadStatic_From(_, _, _)
LoadStatic_From(r, h, i) ==
    IF i > r.max_used_bound THEN h
    ELSE LET flags == r.state_flags[i] IN
         IF \/ FLAG_ACTIVE \notin flags
            \/ COMP_PHYSICS \notin r.component_masks[i]
            \/ (FLAG_STATIC \notin flags /\ r.inv_mass[i] > 0)
         THEN LoadStatic_From(r, h, i + 1)
         ELSE LoadStatic_From(r, SpatialHash_AddStatic(h, i, BodyRect(r, i)), i + 1)

PhysicsSystem_LoadStaticGeometry(r, h) == LoadStatic_From(r, h, 0)

\* CheckCircle_Circle on the x axis: dy = 0, so sqrtf(distSq) = |dx| and the
\* normal is (1, 0) or (-1, 0), kept as 1 or -1.  0.0001 px^2 is 100 in
\* squared thousandths.
CheckCircle_Circle(ax, radiusA, bx, radiusB) ==
    LET dx == bx - ax
        distSq == dx * dx
        combinedRadius == radiusA + radiusB
        dist == IF dx >= 0 THEN dx ELSE -dx
    IN IF distSq >= combinedRadius * combinedRadius
       THEN [collided |-> FALSE, overlap |-> 0, normal |-> 0]
       ELSE IF distSq < 100
       THEN [collided |-> TRUE, overlap |-> combinedRadius, normal |-> 1]
       ELSE [collided |-> TRUE, overlap |-> combinedRadius - dist,
             normal |-> IF dx >= 0 THEN 1 ELSE -1]

\* (maskA & layerB) || (maskB & layerA)
ShouldCollide(flagsA, flagsB) ==
    \/ GET_MASK(flagsA) \cap GET_LAYER(flagsB) # {}
    \/ GET_MASK(flagsB) \cap GET_LAYER(flagsA) # {}

\* the body of the inner loop of Phase3_DetectContacts: body i against the
\* candidate j; contacts is the stream so far.  Every shape of the model is
\* a circle or absent, so the AABB branches of the dispatch are not taken.
DetectPair_SkipsSleepers(r, contacts, i, j) ==
    IF j >= MAX_ENTITIES \/ j = i THEN contacts
    ELSE LET flagsA == r.state_flags[i]
             flagsB == r.state_flags[j]
             bIsStatic == FLAG_STATIC \in flagsB \/ r.inv_mass[j] <= 0
             c == IF /\ COMP_COLLISION_Circle \in r.component_masks[i]
                     /\ COMP_COLLISION_Circle \in r.component_masks[j]
                  THEN CheckCircle_Circle(r.pos[i], r.size[i] \div 2,
                                          r.pos[j], r.size[j] \div 2)
                  ELSE [collided |-> FALSE, overlap |-> 0, normal |-> 0]
         IN IF FLAG_ACTIVE \notin flagsB THEN contacts
            ELSE IF ~bIsStatic /\ i > j
            THEN contacts
            ELSE IF ~ShouldCollide(flagsA, flagsB) THEN contacts
            ELSE IF c.collided /\ c.overlap > 0 /\ Len(contacts) < MAX_CONTACTS
            THEN Append(contacts, [idA |-> i, idB |-> j, overlap |-> c.overlap,
                                   normalX |-> c.normal])
            ELSE contacts
DetectPair(r, contacts, i, j) ==
    IF j >= MAX_ENTITIES \/ j = i THEN contacts
    ELSE LET flagsA == r.state_flags[i]
             flagsB == r.state_flags[j]
             bIsStatic == FLAG_STATIC \in flagsB \/ r.inv_mass[j] <= 0
             c == IF /\ COMP_COLLISION_Circle \in r.component_masks[i]
                     /\ COMP_COLLISION_Circle \in r.component_masks[j]
                  THEN CheckCircle_Circle(r.pos[i], r.size[i] \div 2,
                                          r.pos[j], r.size[j] \div 2)
                  ELSE [collided |-> FALSE, overlap |-> 0, normal |-> 0]
         IN IF FLAG_ACTIVE \notin flagsB THEN contacts
            ELSE IF ~bIsStatic /\ i > j /\ FLAG_SLEEPING \notin flagsB
            THEN contacts
            ELSE IF ~ShouldCollide(flagsA, flagsB) THEN contacts
            ELSE IF c.collided /\ c.overlap > 0 /\ Len(contacts) < MAX_CONTACTS
            THEN Append(contacts, [idA |-> i, idB |-> j, overlap |-> c.overlap,
                                   normalX |-> c.normal])
            ELSE contacts

\* for (k = 0; k < count; k++) over neighbours[]
RECURSIVE DetectNeighbours(_, _, _, _, _)
DetectNeighbours(r, contacts, i, neighbours, k) ==
    IF k > Len(neighbours) THEN contacts
    ELSE DetectNeighbours(r, DetectPair(r, contacts, i, neighbours[k]), i, neighbours,
                          k + 1)

\* the outer loop of Phase3_DetectContacts: the hash (the queries stamp it)
\* and the contact stream
RECURSIVE Detect_From(_, _, _)
Detect_From(r, d, i) ==
    IF i > r.max_used_bound THEN d
    ELSE LET flagsA == r.state_flags[i] IN
         IF \/ FLAG_ACTIVE \notin flagsA
            \/ COMP_PHYSICS \notin r.component_masks[i]
            \/ FLAG_STATIC \in flagsA
            \/ FLAG_SLEEPING \in flagsA
         THEN Detect_From(r, d, i + 1)
         ELSE LET q == SpatialHash_Query(d.hash, BodyRect(r, i), PHYS_MAX_NEIGHBOURS)
              IN Detect_From(r, [hash |-> q.hash,
                                 contacts |-> DetectNeighbours(r, d.contacts, i,
                                                               q.results, 1)],
                             i + 1)

Phase3_DetectContacts(r, h) == Detect_From(r, [hash |-> h, contacts |-> <<>>], 0)

\* ResolveCollision.  Inverse masses are 0 or 1, so invMassSum <= 0.0001 is
\* invMassSum = 0.  -0.001 px/s is -1 in thousandths.  The tangent of the
\* friction step is relVel - (relVel . n) n, which is 0 on the axis: the
\* step returns at tangentLen < 0.0001.
ResolveCollision_FullCorrection(r, idA, idB, overlap, normalX) ==
    LET r1 == [r EXCEPT !.state_flags[idA] = @ \ {FLAG_SLEEPING},
                        !.state_flags[idB] = @ \ {FLAG_SLEEPING}]
        invMassA == r.inv_mass[idA]
        invMassB == r.inv_mass[idB]
        invMassSum == invMassA + invMassB
    IN IF invMassSum <= 0 THEN r1
       ELSE LET pen == IF overlap - PHYS_SLOP > 0 THEN overlap - PHYS_SLOP ELSE 0
                c0  == pen \div invMassSum
                correctionMag == IF c0 > MAX_CORRECTION THEN MAX_CORRECTION ELSE c0
                r2 == [r1 EXCEPT !.pos[idA] = @ - normalX * correctionMag * invMassA,
                                 !.pos[idB] = @ + normalX * correctionMag * invMassB]
                velAlongNormal == (r.vel[idA] - r.vel[idB]) * normalX
                j == (-(Unit + MAT_DEFAULT_RESTITUTION) * velAlongNormal)
                        \div (Unit * invMassSum)
            IN IF velAlongNormal < -1 THEN r2
               ELSE [r2 EXCEPT !.vel[idA] = @ + j * invMassA * normalX,
                               !.vel[idB] = @ - j * invMassB * normalX]
ResolveCollision(r, idA, idB, overlap, normalX) ==
    LET r1 == [r EXCEPT !.state_flags[idA] = @ \ {FLAG_SLEEPING},
                        !.state_flags[idB] = @ \ {FLAG_SLEEPING}]
        invMassA == r.inv_mass[idA]
        invMassB == r.inv_mass[idB]
        invMassSum == invMassA + invMassB
    IN IF invMassSum <= 0 THEN r1
       ELSE LET pen == IF overlap - PHYS_SLOP > 0 THEN overlap - PHYS_SLOP ELSE 0
                c0  == ((pen * PHYS_CORRECTION_PERCENT) \div Unit) \div invMassSum
                correctionMag == IF c0 > MAX_CORRECTION THEN MAX_CORRECTION ELSE c0
                r2 == [r1 EXCEPT !.pos[idA] = @ - normalX * correctionMag * invMassA,
                                 !.pos[idB] = @ + normalX * correctionMag * invMassB]
                velAlongNormal == (r.vel[idA] - r.vel[idB]) * normalX
                j == (-(Unit + MAT_DEFAULT_RESTITUTION) * velAlongNormal)
                        \div (Unit * invMassSum)
            IN IF velAlongNormal < -1 THEN r2
               ELSE [r2 EXCEPT !.vel[idA] = @ + j * invMassA * normalX,
                               !.vel[idB] = @ - j * invMassB * normalX]

\* Phase3_ResolveContacts: the stream is resolved in order
RECURSIVE Resolve_From(_, _, _)
Resolve_From(r, contacts, k) ==
    IF k > Len(contacts) THEN r
    ELSE LET c == contacts[k] IN
         Resolve_From(ResolveCollision(r, c.idA, c.idB, c.overlap, c.normalX),
                      contacts, k + 1)

Phase3_ResolveContacts(r, contacts) == Resolve_From(r, contacts, 1)

----------------------------------------------------------------------------
(* The engine frame (cre_engine.c): Spec *)

\* no dispatch loop is in progress
NoLoop ==
    [ndebug |-> FALSE, table |-> "none", i |-> 0, hook_count |-> 0,
     entity |-> ENTITY_INVALID, src |-> ENTITY_INVALID]

\* no pass is in progress
NoIter == [current |-> 0, end |-> 0]

\* history kept beside the program state
NoHist ==
    [issued     |-> {},     \* handles the game has been given
     idle       |-> {},     \* handles from ReserveSlot not yet passed to Clone
     reserved   |-> {},     \* handles reserved, neither set up nor returned yet
     nextUid    |-> 1,      \* serial number of the next accepted command
     applyLog   |-> <<>>,   \* the commands handled by their system, in order
     dropped    |-> {},     \* uids flushed without having been handled
     passSeen   |-> {},     \* uids the entity pass in progress has been given
     passPushed |-> {},     \* uids pushed while that pass was in progress
     passSpawned |-> {},    \* handles that pass has set up by SPAWN or CLONE
     cmd        |-> ZeroCmd \* the command the last step handled or pushed
    ]

Init ==
    /\ bus = CommandBus_Init
    /\ reg = EntityManager_Init
    /\ iter = NoIter
    /\ pc = "logic"
    /\ ops = 0
    /\ lastOp = "init"
    /\ lastRet = TRUE
    /\ shadow = <<>>
    /\ snap = <<>>
    /\ yielded = <<>>
    /\ hist = NoHist
    /\ loop = NoLoop
    /\ hash = SpatialHash_Init
    /\ phys = NoUpdate

busGhosts == <<shadow, snap, yielded>>

\* the uids of the commands in [from, to) of the ring
RECURSIVE RangeUids(_, _, _)
RangeUids(b, from, to) ==
    IF from = to THEN {}
    ELSE {b.buffer[MaskIndex(from)].uid} \cup RangeUids(b, U32Inc(from), to)

Logged == {hist.applyLog[i].uid : i \in 1..Len(hist.applyLog)}

\* the handles game code can name: those it was given, and the sentinel
GameHandles == hist.issued \cup {ENTITY_INVALID}

\* the type, component mask and flags game code creates entities with
TYPE_ENEMY == 1
GameComps == {COMP_PHYSICS, COMP_COLLISION_AABB}

\* the component mask the game's spawners pass to EntityManager_Create
SpawnerComps == {COMP_ANIMATION, COMP_PHYSICS, COMP_COLLISION_AABB}

\* the velocity the game's spawner writes after Create
SPAWNER_VEL == 20

(* Phase 1: game logic (SceneManager_Update).  Each action is one API call. *)

GameCreate ==
    /\ pc = "logic" /\ ops < MaxCalls
    /\ \E position \in 1..NumVals :
         LET c == EntityManager_Create(reg, TYPE_ENEMY, position, GameComps, {}) IN
         /\ reg' = c.reg
         /\ lastRet' = c.e
         /\ hist' = [hist EXCEPT !.issued =
                        IF ENTITY_IS_VALID(c.e) THEN hist.issued \cup {c.e} ELSE hist.issued]
    /\ lastOp' = "Create"
    /\ ops' = ops + 1
    /\ UNCHANGED <<phys, hash, loop, bus, iter, pc, busGhosts>>

GameDestroy ==
    /\ pc = "logic" /\ ops < MaxCalls
    /\ \E e \in hist.issued :
         /\ reg' = EntityManager_Destroy(reg, e)
         /\ lastRet' = e
    /\ lastOp' = "Destroy"
    /\ ops' = ops + 1
    /\ UNCHANGED <<phys, hash, loop, bus, iter, pc, hist, busGhosts>>

GameSpawn ==
    /\ pc = "logic" /\ ops < MaxCalls
    /\ \E type \in {CMD_ENTITY_SPAWN, CMD_ENTITY_SPAWN_UNTRACKED},
          prototype \in GameHandles, position \in 1..NumVals :
         LET sp == entityAPI_Spawn(reg, bus, type, prototype, position, hist.nextUid) IN
         /\ reg' = sp.reg
         /\ bus' = sp.bus
         /\ lastRet' = sp.e
         /\ hist' = [hist EXCEPT
                        !.issued = IF sp.pushed THEN hist.issued \cup {sp.e} ELSE hist.issued,
                        !.reserved = IF sp.pushed THEN hist.reserved \cup {sp.e}
                                     ELSE hist.reserved,
                        !.nextUid = IF sp.pushed THEN hist.nextUid + 1 ELSE hist.nextUid,
                        !.cmd = MkCmd(type, sp.e, prototype, position, hist.nextUid)]
    /\ lastOp' = "Spawn"
    /\ ops' = ops + 1
    /\ UNCHANGED <<phys, hash, loop, iter, pc, busGhosts>>

GameReserve ==
    /\ pc = "logic" /\ ops < MaxCalls
    /\ LET res == EntityManager_ReserveSlot(reg) IN
         /\ reg' = res.reg
         /\ lastRet' = res.e
         /\ hist' = IF ENTITY_IS_VALID(res.e)
                    THEN [hist EXCEPT !.issued = hist.issued \cup {res.e},
                                      !.idle = hist.idle \cup {res.e},
                                      !.reserved = hist.reserved \cup {res.e}]
                    ELSE hist
    /\ lastOp' = "ReserveSlot"
    /\ ops' = ops + 1
    /\ UNCHANGED <<phys, hash, loop, bus, iter, pc, busGhosts>>

\* entityAPI_Clone, with a dst that came from ReserveSlot and was not used yet
GameClone ==
    /\ pc = "logic" /\ ops < MaxCalls
    /\ \E dst \in hist.idle, prototype \in GameHandles, position \in 1..NumVals :
         LET cl == entityAPI_Clone(reg, bus, dst, prototype, position, hist.nextUid) IN
         /\ reg' = cl.reg
         /\ bus' = cl.bus
         /\ lastRet' = cl.pushed
         /\ hist' = [hist EXCEPT
                        !.idle = hist.idle \ {dst},
                        !.reserved = IF cl.pushed THEN hist.reserved
                                     ELSE hist.reserved \ {dst},
                        !.nextUid = IF cl.pushed THEN hist.nextUid + 1 ELSE hist.nextUid,
                        !.cmd = MkCmd(CMD_ENTITY_CLONE, dst, prototype, position, hist.nextUid)]
    /\ lastOp' = "Clone"
    /\ ops' = ops + 1
    /\ UNCHANGED <<phys, hash, loop, iter, pc, busGhosts>>

\* the one-command producers: entityAPI_Destroy, an animation command
\* (cre_animationAPI.c) and a CMD_PHYS_DEFINE pushed by game code
GamePush ==
    /\ pc = "logic" /\ ops < MaxCalls
    /\ \E e \in hist.issued, type \in {CMD_ENTITY_DESTROY, CMD_PHYS_DEFINE, CMD_ANIM_PLAY}, v \in 1..NumVals :
         LET cmd == MkCmd(type, e, ENTITY_INVALID, v, hist.nextUid)
             p   == PushCommand(bus, cmd)
         IN /\ (type # CMD_PHYS_DEFINE => v = 1)
            /\ bus' = p.bus
            /\ lastRet' = p.ok
            /\ hist' = [hist EXCEPT
                           !.nextUid = IF p.ok THEN hist.nextUid + 1 ELSE hist.nextUid,
                           !.cmd = cmd]
    /\ lastOp' = "Push"
    /\ ops' = ops + 1
    /\ UNCHANGED <<phys, hash, loop, reg, iter, pc, busGhosts>>

(* Phase 2: EntitySystem_Update, PhysicsSystem_Update, AnimationSystem_Update *)

\* EntitySystem_ProcessCommands is entered: the snapshot is taken
EntityBegin ==
    /\ pc = "logic"
    /\ LET g == CommandBus_GetIterator(bus) IN
         /\ iter' = g.iter
         /\ bus' = g.bus
    /\ pc' = "entity"
    /\ hist' = [hist EXCEPT !.passSeen = {}, !.passPushed = {}, !.passSpawned = {}]
    /\ lastOp' = "EntityBegin"
    /\ lastRet' = TRUE
    /\ UNCHANGED <<phys, hash, loop, reg, ops, busGhosts>>

\* what a hook called with (reg, bus, src, dst) may do: nothing, or push one
\* command about the entity it was called for
HookCmds(e) ==
    {MkCmd(CMD_ENTITY_DESTROY, e, ENTITY_INVALID, 1, hist.nextUid),
     MkCmd(CMD_ANIM_PLAY, e, ENTITY_INVALID, 1, hist.nextUid)}

\* one turn of the loop of EntitySystem_ProcessCommands: Next, the switch,
\* and the hooks the case dispatches
EntityStep ==
    /\ pc = "entity"
    /\ LET n == CommandBus_Next(bus, iter) IN
       /\ n.ok
       /\ iter' = n.iter
       /\ LET cmd     == n.cmd
              mine    == CmdDomain(cmd.type) = CMD_DOMAIN_ENTITY
              isSpawn == cmd.type \in {CMD_ENTITY_SPAWN, CMD_ENTITY_SPAWN_UNTRACKED,
                                       CMD_ENTITY_CLONE}
              isKill  == cmd.type = CMD_ENTITY_DESTROY
              sp      == EntitySystem_SpawnOrClone(reg, cmd)
              alive   == EntityRegistry_IsAlive(reg, cmd.entity)
              hooked  == \/ (isSpawn /\ sp.ok /\ cmd.type # CMD_ENTITY_SPAWN_UNTRACKED)
                         \/ (isKill /\ alive)
              h1      == [hist EXCEPT
                            !.passSeen = hist.passSeen \cup {cmd.uid},
                            !.applyLog = IF mine
                                         THEN Append(hist.applyLog,
                                                     [uid |-> cmd.uid, domain |-> CMD_DOMAIN_ENTITY])
                                         ELSE hist.applyLog,
                            !.reserved = IF isSpawn THEN hist.reserved \ {cmd.entity}
                                         ELSE hist.reserved,
                            !.passSpawned = IF isSpawn /\ sp.ok
                                            THEN hist.passSpawned \cup {cmd.entity}
                                            ELSE hist.passSpawned,
                            !.cmd = cmd]
          IN /\ reg' = IF isSpawn THEN sp.reg
                       ELSE IF isKill /\ alive THEN EntitySystem_DestroySlot(reg, cmd.entity.id)
                       ELSE reg
             /\ lastRet' = IF isSpawn THEN sp.ok ELSE IF isKill THEN alive ELSE mine
             /\ \/ /\ bus' = bus
                   /\ hist' = h1
                   /\ ops' = ops
                \/ /\ hooked /\ ops < MaxCalls
                   /\ \E hc \in HookCmds(cmd.entity) :
                        LET p == CommandBus_Push(bus, hc) IN
                        /\ bus' = p.bus
                        /\ hist' = IF p.ok
                                   THEN [h1 EXCEPT !.nextUid = hist.nextUid + 1,
                                                   !.passPushed = hist.passPushed \cup {hc.uid}]
                                   ELSE h1
                   /\ ops' = ops + 1
    /\ lastOp' = "EntityStep"
    /\ UNCHANGED <<phys, hash, loop, pc, busGhosts>>

\* Next returns false: EntitySystem_Update returns and PhysicsSystem_Update
\* enters PhysicsSystem_ProcessCommands, which takes its own snapshot
EntityDone ==
    /\ pc = "entity"
    /\ ~CommandBus_Next(bus, iter).ok
    /\ LET g == CommandBus_GetIterator(bus) IN
         /\ iter' = g.iter
         /\ bus' = g.bus
    /\ pc' = "physics"
    /\ lastOp' = "EntityDone"
    /\ lastRet' = FALSE
    /\ UNCHANGED <<phys, hash, loop, reg, ops, hist, busGhosts>>

\* one turn of the loop of PhysicsSystem_ProcessCommands
PhysStep ==
    /\ pc = "physics"
    /\ LET n == CommandBus_Next(bus, iter) IN
       /\ n.ok
       /\ iter' = n.iter
       /\ reg' = PhysicsSystem_ProcessCommand(reg, n.cmd)
       /\ hist' = [hist EXCEPT
                     !.applyLog = IF CmdDomain(n.cmd.type) = CMD_DOMAIN_PHYS
                                  THEN Append(hist.applyLog,
                                              [uid |-> n.cmd.uid, domain |-> CMD_DOMAIN_PHYS])
                                  ELSE hist.applyLog,
                     !.cmd = n.cmd]
    /\ lastOp' = "PhysStep"
    /\ lastRet' = TRUE
    /\ UNCHANGED <<phys, hash, loop, bus, pc, ops, busGhosts>>

\* the remaining passes of the frame, in the order the engine runs them:
\* AnimationSystem_ProcessCommands, then renderSystem_ProcessCommands
\* (cameraSystem_ProcessCommands, which runs between them, handles no command)
PassDomain(p) == IF p = "anim" THEN CMD_DOMAIN_ANIM ELSE CMD_DOMAIN_RENDER
NextPass(p) ==
    IF p = "physics" THEN "anim" ELSE IF p = "anim" THEN "render" ELSE "cleanup"

\* Next returns false in the physics, animation or render pass
PassDone ==
    /\ pc \in {"physics", "anim", "render"}
    /\ ~CommandBus_Next(bus, iter).ok
    /\ pc' = NextPass(pc)
    /\ IF pc' = "cleanup"
       THEN UNCHANGED <<phys, hash, loop, bus, iter>>
       ELSE LET g == CommandBus_GetIterator(bus) IN
              /\ iter' = g.iter
              /\ bus' = g.bus
    /\ lastOp' = "PassDone"
    /\ lastRet' = FALSE
    /\ UNCHANGED <<phys, hash, loop, reg, ops, hist, busGhosts>>

\* one turn of the loop of the animation or the render pass; what the
\* command does to animation and render state is outside the model
OtherStep ==
    /\ pc \in {"anim", "render"}
    /\ LET n == CommandBus_Next(bus, iter) IN
       /\ n.ok
       /\ iter' = n.iter
       /\ hist' = [hist EXCEPT
                     !.applyLog = IF CmdDomain(n.cmd.type) = PassDomain(pc)
                                  THEN Append(hist.applyLog,
                                              [uid |-> n.cmd.uid, domain |-> PassDomain(pc)])
                                  ELSE hist.applyLog,
                     !.cmd = n.cmd]
    /\ lastOp' = "OtherStep"
    /\ lastRet' = TRUE
    /\ UNCHANGED <<phys, hash, loop, bus, reg, pc, ops, busGhosts>>

(* Phase 4: EnginePhase4_Cleanup *)

Cleanup ==
    /\ pc = "cleanup"
    /\ LET g == CommandBus_GetIterator(bus) IN
         /\ bus' = CommandBus_Flush(g.bus, g.iter)
         /\ hist' = [hist EXCEPT !.dropped =
                        hist.dropped \cup
                        (RangeUids(bus, g.iter.current, g.iter.end) \ Logged)]
    /\ pc' = "logic"
    /\ lastOp' = "Cleanup"
    /\ lastRet' = TRUE
    /\ UNCHANGED <<phys, hash, loop, reg, iter, ops, busGhosts>>

Next ==
    \/ GameCreate \/ GameDestroy \/ GameSpawn \/ GameReserve \/ GameClone \/ GamePush
    \/ EntityBegin \/ EntityStep \/ EntityDone
    \/ PhysStep \/ OtherStep \/ PassDone
    \/ Cleanup

Spec == Init /\ [][Next]_vars

----------------------------------------------------------------------------
(* SpecReg: the registry under direct calls of the EntityManager *)

\* history kept beside the registry
NoRegHist ==
    [issued    |-> {},                    \* handles Create has returned
     reserved  |-> {},                    \* handles from ReserveSlot, not returned
     bumps     |-> [i \in Slots |-> 0],   \* how often each slot was destroyed
     destroyed |-> {},                    \* [e, n]: Destroy(e) took effect and was
                                          \* destruction number n of its slot
     stale     |-> {},                    \* handles issued before the last Reset
     took      |-> FALSE,                 \* the last Destroy found its handle valid
     cmd       |-> ZeroCmd]               \* the command processed last

InitReg ==
    /\ bus = CommandBus_Init
    /\ reg = EntityManager_Init
    /\ iter = NoIter
    /\ pc = "reg"
    /\ ops = 0
    /\ lastOp = "init"
    /\ lastRet = ENTITY_INVALID
    /\ shadow = <<>>
    /\ snap = <<>>
    /\ yielded = <<>>
    /\ hist = NoRegHist
    /\ loop = NoLoop
    /\ hash = SpatialHash_Init
    /\ phys = NoUpdate

regFrame == <<bus, iter, pc, loop, hash, phys, busGhosts>>

RegCreate ==
    /\ ops < MaxRegOps
    /\ \E position \in 1..NumVals :
         LET c == EntityManager_Create(reg, TYPE_ENEMY, position, GameComps, {}) IN
         /\ reg' = c.reg
         /\ lastRet' = c.e
         /\ hist' = [hist EXCEPT !.issued =
                        IF ENTITY_IS_VALID(c.e) THEN hist.issued \cup {c.e} ELSE hist.issued]
    /\ lastOp' = "Create"
    /\ ops' = ops + 1
    /\ UNCHANGED regFrame

\* handles no Create has returned: the sentinel, and an id past the arrays
ForeignHandles == {ENTITY_INVALID, [id |-> MAX_ENTITIES, generation |-> 0]}

RegDestroy ==
    /\ ops < MaxRegOps
    /\ \E e \in hist.issued \cup hist.reserved \cup ForeignHandles :
         /\ reg' = EntityManager_Destroy(reg, e)
         /\ lastRet' = e
         /\ hist' = IF EntityManager_IsValid(reg, e)
                    THEN [hist EXCEPT
                            !.bumps[e.id] = hist.bumps[e.id] + 1,
                            !.destroyed = hist.destroyed \cup
                                          {[e |-> e, n |-> hist.bumps[e.id] + 1]},
                            !.took = TRUE]
                    ELSE [hist EXCEPT !.took = FALSE]
    /\ lastOp' = "Destroy"
    /\ ops' = ops + 1
    /\ UNCHANGED regFrame

RegReserve ==
    /\ ops < MaxRegOps
    /\ LET res == EntityManager_ReserveSlot(reg) IN
         /\ reg' = res.reg
         /\ lastRet' = res.e
         /\ hist' = IF ENTITY_IS_VALID(res.e)
                    THEN [hist EXCEPT !.reserved = hist.reserved \cup {res.e}]
                    ELSE hist
    /\ lastOp' = "ReserveSlot"
    /\ ops' = ops + 1
    /\ UNCHANGED regFrame

\* a reserved slot is given back, as entityAPI_Clone does when the bus is full
RegReturn ==
    /\ ops < MaxRegOps
    /\ \E e \in hist.reserved :
         /\ reg' = EntityManager_ReturnReservedSlot(reg, e)
         /\ lastRet' = e
         /\ hist' = [hist EXCEPT !.reserved = hist.reserved \ {e}]
    /\ lastOp' = "ReturnReservedSlot"
    /\ ops' = ops + 1
    /\ UNCHANGED regFrame

\* the game resets the registry (ResetGameplay); handles it still holds go
\* stale, and the reservations are forgotten with the rebuilt free list
RegReset ==
    /\ ops < MaxRegOps
    /\ reg' = EntityManager_Reset(reg)
    /\ lastRet' = ENTITY_INVALID
    /\ hist' = [hist EXCEPT !.stale = hist.stale \cup hist.issued,
                             !.reserved = {}]
    /\ lastOp' = "Reset"
    /\ ops' = ops + 1
    /\ UNCHANGED regFrame

NextReg == RegCreate \/ RegDestroy \/ RegReserve \/ RegReturn \/ RegReset

SpecReg == InitReg /\ [][NextReg]_vars

----------------------------------------------------------------------------
(* The hook tables and the dispatch loops of EntitySystem_ProcessCommands: *)
(* SpecHooks.  The three tables have the same code; table names the one a  *)
(* call is about.                                                          *)

\* the callbacks a client may register
Callbacks == {"cbA", "cbB", "cbC", "cbD"}

\* the index of cb in the first count entries of the array, or MAX_HOOKS
RECURSIVE HookIndexFrom(_, _, _)
HookIndexFrom(t, cb, i) ==
    IF i >= t.count THEN MAX_HOOKS
    ELSE IF t.hooks[i] = cb THEN i
    ELSE HookIndexFrom(t, cb, i + 1)

\* EntitySystem_SubscribeOn*: the table afterwards and the value returned
HookTable_Subscribe(t, cb) ==
    IF HookIndexFrom(t, cb, 0) < MAX_HOOKS THEN [table |-> t, ret |-> FALSE]
    ELSE IF t.count >= MAX_HOOKS THEN [table |-> t, ret |-> FALSE]
    ELSE [table |-> [t EXCEPT !.hooks[t.count] = cb, !.count = t.count + 1],
          ret |-> TRUE]

\* EntitySystem_UnsubscribeOn*: the entries after cb move one place down
HookTable_Unsubscribe_SwapsLast(t, cb) ==
    LET i == HookIndexFrom(t, cb, 0) IN
    IF i >= MAX_HOOKS THEN [table |-> t, ret |-> FALSE]
    ELSE [table |-> [t EXCEPT !.hooks = [j \in HookSlots |->
                                           IF j = t.count - 1 THEN NULL
                                           ELSE IF j = i THEN t.hooks[t.count - 1]
                                           ELSE t.hooks[j]],
                              !.count = t.count - 1],
          ret |-> TRUE]
HookTable_Unsubscribe(t, cb) ==
    LET i == HookIndexFrom(t, cb, 0) IN
    IF i >= MAX_HOOKS THEN [table |-> t, ret |-> FALSE]
    ELSE [table |-> [t EXCEPT !.hooks = [j \in HookSlots |->
                                           IF j = t.count - 1 THEN NULL
                                           ELSE IF j >= i /\ j + 1 < t.count
                                           THEN t.hooks[j + 1]
                                           ELSE t.hooks[j]],
                              !.count = t.count - 1],
          ret |-> TRUE]

\* EntitySystem_Clear*Hooks: it also resets the is_dispatching flag
HookTable_Clear(t) == [table |-> EmptyTable, ret |-> TRUE]

\* a call of the hook API: which function, on which table, with which callback
ApiOps ==
    [kind : {"Subscribe", "Unsubscribe"}, table : Tables, cb : Callbacks]
    \cup [kind : {"Clear"}, table : Tables, cb : {NULL}]

\* what the call does to the registry and what it returns, asserts aside
ApiCall(r, op) ==
    LET t == r.events[op.table]
        c == IF op.kind = "Subscribe" THEN HookTable_Subscribe(t, op.cb)
             ELSE IF op.kind = "Unsubscribe" THEN HookTable_Unsubscribe(t, op.cb)
             ELSE HookTable_Clear(t)
    IN [reg |-> [r EXCEPT !.events[op.table] = c.table], ret |-> c.ret]

\* whether an assert of the call fails: the table is being dispatched, or a
\* Subscribe of a new callback finds the table full
ApiAsserts(r, op) ==
    LET t == r.events[op.table] IN
    \/ t.is_dispatching
    \/ /\ op.kind = "Subscribe"
       /\ HookIndexFrom(t, op.cb, 0) >= MAX_HOOKS
       /\ t.count >= MAX_HOOKS

\* the table a command's hooks are in
HookTableOf(type) ==
    IF type = CMD_ENTITY_DESTROY THEN "destroy"
    ELSE IF type = CMD_ENTITY_CLONE THEN "clone"
    ELSE "spawn"

\* entry of a dispatch loop: is_dispatching_*_hooks = true
EntitySystem_BeginDispatch_ClearsSlotFirst(r, table, id) ==
    LET r1 == IF table = "destroy" THEN EntitySystem_DestroySlot(r, id) ELSE r IN
    [r1 EXCEPT !.events[table].is_dispatching = TRUE]
EntitySystem_BeginDispatch(r, table, id) ==
    [r EXCEPT !.events[table].is_dispatching = TRUE]

\* exit of a dispatch loop: is_dispatching_*_hooks = false, and for DESTROY
\* the slot is cleared
EntitySystem_EndDispatch(r, table, id) ==
    LET r1 == [r EXCEPT !.events[table].is_dispatching = FALSE] IN
    IF table = "destroy" THEN EntitySystem_DestroySlot(r1, id) ELSE r1

NoHookHist ==
    [issued   |-> {},           \* handles Create has returned
     reserved |-> {},           \* handles from ReserveSlot, not yet used
     seen     |-> <<>>,         \* per hook invoked by the current or last loop:
                                \* the callback and whether the entity was valid
     begin    |-> EmptyTable,   \* the table when that loop was entered
     called   |-> FALSE,        \* a hook of that loop called the hook API on
                                \* the table being dispatched
     op       |-> [kind |-> "none", table |-> "clone", cb |-> NULL]]
                                \* the last call the game made of the hook API

\* the build is a debug build (asserts compiled in) or a release build
InitHooks ==
    /\ bus = CommandBus_Init
    /\ reg = EntityManager_Init
    /\ iter = NoIter
    /\ pc = "idle"
    /\ ops = 0
    /\ lastOp = "init"
    /\ lastRet = ENTITY_INVALID
    /\ shadow = <<>>
    /\ snap = <<>>
    /\ yielded = <<>>
    /\ hist = NoHookHist
    /\ \E nd \in BOOLEAN : loop = [NoLoop EXCEPT !.ndebug = nd]
    /\ hash = SpatialHash_Init
    /\ phys = NoUpdate

hookFrame == <<bus, iter, hash, phys, busGhosts>>

HkCreate ==
    /\ pc = "idle" /\ ops < MaxHookOps
    /\ LET c == EntityManager_Create(reg, TYPE_ENEMY, 1, SpawnerComps, {}) IN
         /\ reg' = c.reg
         /\ lastRet' = c.e
         /\ hist' = [hist EXCEPT !.issued =
                        IF ENTITY_IS_VALID(c.e) THEN hist.issued \cup {c.e} ELSE hist.issued]
    /\ lastOp' = "Create"
    /\ ops' = ops + 1
    /\ UNCHANGED <<pc, loop, hookFrame>>

HkReserve ==
    /\ pc = "idle" /\ ops < MaxHookOps
    /\ LET res == EntityManager_ReserveSlot(reg) IN
         /\ reg' = res.reg
         /\ lastRet' = res.e
         /\ hist' = IF ENTITY_IS_VALID(res.e)
                    THEN [hist EXCEPT !.reserved = hist.reserved \cup {res.e}]
                    ELSE hist
    /\ lastOp' = "ReserveSlot"
    /\ ops' = ops + 1
    /\ UNCHANGED <<pc, loop, hookFrame>>

\* the game calls the hook API between frames
HkApi ==
    /\ pc = "idle" /\ ops < MaxHookOps
    /\ \E op \in ApiOps :
         /\ hist' = [hist EXCEPT !.op = op]
         /\ IF ApiAsserts(reg, op) /\ ~loop.ndebug
            THEN /\ pc' = "aborted"
                 /\ lastRet' = FALSE
                 /\ UNCHANGED reg
            ELSE /\ pc' = pc
                 /\ reg' = ApiCall(reg, op).reg
                 /\ lastRet' = ApiCall(reg, op).ret
    /\ lastOp' = "Api"
    /\ ops' = ops + 1
    /\ UNCHANGED <<loop, hookFrame>>

\* a DESTROY, CLONE or SPAWN command is processed up to the entry of its
\* dispatch loop; a command that fails its validation ends there
HkBeginDispatch ==
    /\ pc = "idle" /\ ops < MaxHookOps
    /\ \E type \in {CMD_ENTITY_DESTROY, CMD_ENTITY_CLONE, CMD_ENTITY_SPAWN} :
       \E e \in IF type = CMD_ENTITY_DESTROY THEN hist.issued ELSE hist.reserved :
       \E src \in IF type = CMD_ENTITY_DESTROY THEN {ENTITY_INVALID} ELSE hist.issued :
         LET cmd   == MkCmd(type, e, src, 2, 0)
             table == HookTableOf(type)
             sp    == EntitySystem_SpawnOrClone(reg, cmd)
             go    == IF type = CMD_ENTITY_DESTROY
                      THEN EntityRegistry_IsAlive(reg, e) ELSE sp.ok
             r1    == IF type = CMD_ENTITY_DESTROY THEN reg ELSE sp.reg
         IN /\ reg' = IF go THEN EntitySystem_BeginDispatch(r1, table, e.id) ELSE r1
            /\ pc' = IF go THEN "dispatch" ELSE "idle"
            /\ loop' = IF go
                       THEN [loop EXCEPT !.table = table, !.i = 0,
                                         !.hook_count = r1.events[table].count,
                                         !.entity = e, !.src = src]
                       ELSE loop
            /\ hist' = [hist EXCEPT
                          !.reserved = hist.reserved \ {e},
                          !.seen = IF go THEN <<>> ELSE hist.seen,
                          !.begin = IF go THEN r1.events[table] ELSE hist.begin,
                          !.called = IF go THEN FALSE ELSE hist.called]
            /\ lastRet' = e
    /\ lastOp' = "BeginDispatch"
    /\ ops' = ops + 1
    /\ UNCHANGED hookFrame

\* one turn of the dispatch loop: hooks[i] is read and, unless NULL, called;
\* the hook returns at once or calls the hook API first
HkCallHook ==
    /\ pc = "dispatch"
    /\ loop.i < loop.hook_count
    /\ LET hook == reg.events[loop.table].hooks[loop.i] IN
       IF hook = NULL
       THEN /\ loop' = [loop EXCEPT !.i = loop.i + 1]
            /\ lastOp' = "SkipHook"
            /\ lastRet' = NULL
            /\ UNCHANGED <<phys, hash, reg, pc, hist>>
       ELSE /\ lastOp' = "CallHook"
            /\ lastRet' = hook
            /\ LET h1 == [hist EXCEPT !.seen = Append(hist.seen,
                              [cb |-> hook,
                               alive |-> EntityManager_IsValid(reg, loop.entity)])]
               IN \/ /\ reg' = reg
                     /\ pc' = pc
                     /\ hist' = h1
                     /\ loop' = [loop EXCEPT !.i = loop.i + 1]
                  \/ \E op \in ApiOps :
                       /\ hist' = [h1 EXCEPT !.called = hist.called \/ op.table = loop.table]
                       /\ IF ApiAsserts(reg, op) /\ ~loop.ndebug
                          THEN /\ pc' = "aborted"
                               /\ UNCHANGED <<phys, hash, reg, loop>>
                          ELSE /\ pc' = pc
                               /\ reg' = ApiCall(reg, op).reg
                               /\ loop' = [loop EXCEPT !.i = loop.i + 1]
    /\ UNCHANGED <<ops, hookFrame>>

\* the loop has run hook_count turns
HkEndDispatch ==
    /\ pc = "dispatch"
    /\ loop.i >= loop.hook_count
    /\ reg' = EntitySystem_EndDispatch(reg, loop.table, loop.entity.id)
    /\ pc' = "idle"
    /\ loop' = [loop EXCEPT !.i = 0, !.hook_count = 0]
    /\ lastOp' = "EndDispatch"
    /\ lastRet' = loop.entity
    /\ UNCHANGED <<ops, hist, hookFrame>>

NextHooks ==
    HkCreate \/ HkReserve \/ HkApi \/ HkBeginDispatch \/ HkCallHook \/ HkEndDispatch

SpecHooks == InitHooks /\ [][NextHooks]_vars

----------------------------------------------------------------------------
(* The spatial hash under calls of its API: SpecHash *)

\* the rectangles callers pass: around the origin, one or two cells wide and
\* high, some at negative coordinates
Rects == [x : {-2, 1}, y : {0}, w : {0, 2}, h : {0, 2}]

\* the set of cells of a rectangle
CellSet(rect) == {CellsOf(rect)[k] : k \in 1..Len(CellsOf(rect))}

\* the number of nodes on the static free list
RECURSIVE FreeLen(_, _)
FreeLen(h, idx) ==
    IF idx = SPATIAL_NULL_IDX THEN 0 ELSE 1 + FreeLen(h, h.staticNodes[idx].nextIdx)

\* nodes an insert can still obtain
NodesLeft(h, layer) ==
    IF layer = "static"
    THEN FreeLen(h, h.staticFreeHead) + (SPATIAL_MAX_STATIC - h.staticPoolIdx)
    ELSE SPATIAL_MAX_DYNAMIC - h.dynamicPoolIdx

NoHashHist ==
    [aabbs   |-> {},     \* [layer, id, rect, whole]: inserts not yet removed or
                         \* cleared; whole: a node was linked for every cell
     rect    |-> [x |-> 0, y |-> 0, w |-> 0, h |-> 0],   \* of the last call
     maxOut  |-> 0,      \* maxResults of the last query
     results |-> <<>>,   \* what it wrote to results[]
     full    |-> <<>>,   \* what it would have written with room for all
     before  |-> SpatialHash_Init,  \* the hash before the last AddStatic, kept
                         \* while that call or its RemoveStatic is the last call
     fresh   |-> FALSE,  \* the entity of that AddStatic was not in the static layer
     cycle   |-> FALSE]  \* the last two calls: AddStatic(id, box), RemoveStatic(id, box)

\* the part of the history that is about the last AddStatic, for the calls
\* that end it
NoCycle(h) == [h EXCEPT !.before = SpatialHash_Init, !.fresh = FALSE, !.cycle = FALSE]

InitHash ==
    /\ bus = CommandBus_Init
    /\ reg = EntityManager_Init
    /\ iter = NoIter
    /\ pc = "hash"
    /\ ops = 0
    /\ lastOp = "init"
    /\ lastRet = 0
    /\ shadow = <<>>
    /\ snap = <<>>
    /\ yielded = <<>>
    /\ hist = NoHashHist
    /\ loop = NoLoop
    /\ hash = SpatialHash_Init
    /\ phys = NoUpdate

hashFrame == <<bus, reg, iter, pc, loop, phys, busGhosts>>

\* a static entity has one AABB: an entity that is inserted again is inserted
\* at the same rectangle
HashAddStatic ==
    /\ ops < MaxHashOps
    /\ \E id \in Slots : \E rect \in Rects :
         /\ \A a \in hist.aabbs : (a.layer = "static" /\ a.id = id) => a.rect = rect
         /\ hash' = SpatialHash_AddStatic(hash, id, rect)
         /\ hist' = [hist EXCEPT !.rect = rect, !.aabbs = hist.aabbs \cup
                        {[layer |-> "static", id |-> id, rect |-> rect,
                          whole |-> NodesLeft(hash, "static") >= Len(CellsOf(rect))]},
                       !.before = hash,
                       !.fresh = \A a \in hist.aabbs : ~(a.layer = "static" /\ a.id = id),
                       !.cycle = FALSE]
         /\ lastRet' = id
    /\ lastOp' = "AddStatic"
    /\ ops' = ops + 1
    /\ UNCHANGED hashFrame

HashAddDynamic ==
    /\ ops < MaxHashOps
    /\ \E id \in Slots : \E rect \in Rects :
         /\ hash' = SpatialHash_AddDynamic(hash, id, rect)
         /\ hist' = [NoCycle(hist) EXCEPT !.rect = rect, !.aabbs = hist.aabbs \cup
                        {[layer |-> "dynamic", id |-> id, rect |-> rect,
                          whole |-> NodesLeft(hash, "dynamic") >= Len(CellsOf(rect))]}]
         /\ lastRet' = id
    /\ lastOp' = "AddDynamic"
    /\ ops' = ops + 1
    /\ UNCHANGED hashFrame

\* RemoveStatic is called with the AABB the entity was inserted at (or for
\* an entity that is not in the static layer)
HashRemoveStatic ==
    /\ ops < MaxHashOps
    /\ \E id \in Slots : \E rect \in Rects :
         /\ \A a \in hist.aabbs : (a.layer = "static" /\ a.id = id) => a.rect = rect
         /\ hash' = SpatialHash_RemoveStatic(hash, id, rect)
         /\ hist' = IF lastOp = "AddStatic" /\ lastRet = id /\ hist.rect = rect
                    THEN [hist EXCEPT !.cycle = TRUE, !.aabbs =
                            {a \in hist.aabbs : ~(a.layer = "static" /\ a.id = id)}]
                    ELSE [NoCycle(hist) EXCEPT !.rect = rect, !.aabbs =
                            {a \in hist.aabbs : ~(a.layer = "static" /\ a.id = id)}]
         /\ lastRet' = id
    /\ lastOp' = "RemoveStatic"
    /\ ops' = ops + 1
    /\ UNCHANGED hashFrame

HashClearDynamic ==
    /\ ops < MaxHashOps
    /\ hash' = SpatialHash_ClearDynamic(hash)
    /\ hist' = [NoCycle(hist) EXCEPT !.aabbs = {a \in hist.aabbs : a.layer = "static"}]
    /\ lastRet' = 0
    /\ lastOp' = "ClearDynamic"
    /\ ops' = ops + 1
    /\ UNCHANGED hashFrame

HashClearAll ==
    /\ ops < MaxHashOps
    /\ hash' = SpatialHash_ClearAll(hash)
    /\ hist' = [NoCycle(hist) EXCEPT !.aabbs = {}]
    /\ lastRet' = 0
    /\ lastOp' = "ClearAll"
    /\ ops' = ops + 1
    /\ UNCHANGED hashFrame

HashQuery ==
    /\ ops < MaxHashOps
    /\ \E rect \in Rects : \E maxResults \in 0..MaxOut :
         LET q == SpatialHash_Query(hash, rect, maxResults) IN
         /\ hash' = q.hash
         /\ lastRet' = q.count
         /\ hist' = [NoCycle(hist) EXCEPT
                       !.rect = rect,
                       !.maxOut = maxResults,
                       !.results = q.results,
                       !.full = SpatialHash_Query(hash, rect, MAX_ENTITIES).results]
    /\ lastOp' = "Query"
    /\ ops' = ops + 1
    /\ UNCHANGED hashFrame

NextHash ==
    \/ HashAddStatic \/ HashAddDynamic \/ HashRemoveStatic
    \/ HashClearDynamic \/ HashClearAll \/ HashQuery

SpecHash == InitHash /\ [][NextHash]_vars

----------------------------------------------------------------------------
(* The systems' command handlers applied to the registry, one command at a *)
(* time: SpecCmd                                                           *)

\* one turn of the loop of EntitySystem_ProcessCommands, hooks aside
EntitySystem_ProcessCommand(r, cmd) ==
    IF cmd.type \in {CMD_ENTITY_SPAWN, CMD_ENTITY_SPAWN_UNTRACKED, CMD_ENTITY_CLONE}
    THEN EntitySystem_SpawnOrClone(r, cmd).reg
    ELSE EntitySystem_ApplyCommand(r, cmd)

\* a command reaches the system of its domain
ProcessCommand(r, cmd) ==
    IF CmdDomain(cmd.type) = CMD_DOMAIN_ENTITY THEN EntitySystem_ProcessCommand(r, cmd)
    ELSE IF CmdDomain(cmd.type) = CMD_DOMAIN_PHYS THEN PhysicsSystem_ProcessCommand(r, cmd)
    ELSE r

InitCmd ==
    /\ bus = CommandBus_Init
    /\ reg = EntityManager_Init
    /\ iter = NoIter
    /\ pc = "cmd"
    /\ ops = 0
    /\ lastOp = "init"
    /\ lastRet = ENTITY_INVALID
    /\ shadow = <<>>
    /\ snap = <<>>
    /\ yielded = <<>>
    /\ hist = NoRegHist
    /\ loop = NoLoop
    /\ hash = SpatialHash_Init
    /\ phys = NoUpdate

CmdCreate ==
    /\ ops < MaxCmdOps
    /\ \E position \in 1..NumVals : \E flags \in {{}, {FLAG_STATIC}} :
         LET c == EntityManager_Create(reg, TYPE_ENEMY, position, SpawnerComps, flags) IN
         /\ reg' = c.reg
         /\ lastRet' = c.e
         /\ hist' = [hist EXCEPT !.issued =
                        IF ENTITY_IS_VALID(c.e) THEN hist.issued \cup {c.e} ELSE hist.issued]
    /\ lastOp' = "Create"
    /\ ops' = ops + 1
    /\ UNCHANGED regFrame

CmdReserve ==
    /\ ops < MaxCmdOps
    /\ LET res == EntityManager_ReserveSlot(reg) IN
         /\ reg' = res.reg
         /\ lastRet' = res.e
         /\ hist' = IF ENTITY_IS_VALID(res.e)
                    THEN [hist EXCEPT !.reserved = hist.reserved \cup {res.e}]
                    ELSE hist
    /\ lastOp' = "ReserveSlot"
    /\ ops' = ops + 1
    /\ UNCHANGED regFrame

\* a frame passes for a live entity: the game writes its velocity and
\* AnimationSystem_Update advances its timer
CmdTouch ==
    /\ ops < MaxCmdOps
    /\ \E e \in hist.issued :
         /\ EntityManager_IsValid(reg, e)
         /\ reg' = [reg EXCEPT !.vel[e.id] = SPAWNER_VEL,
                                !.anim_timers[e.id] =
                                    IF COMP_ANIMATION \in reg.component_masks[e.id]
                                    THEN 1 ELSE reg.anim_timers[e.id]]
         /\ lastRet' = e
    /\ lastOp' = "Touch"
    /\ ops' = ops + 1
    /\ UNCHANGED <<hist, regFrame>>

\* the commands a client can have pushed, by type
CmdPayloads(type) ==
    IF type \in {CMD_ENTITY_ADD_COMPONENT, CMD_ENTITY_REMOVE_COMPONENT}
    THEN {{COMP_ANIMATION}}
    ELSE IF type \in {CMD_ENTITY_ADD_FLAGS, CMD_ENTITY_REMOVE_FLAGS}
    THEN {{FLAG_CULLED}, {FLAG_STATIC}}
    ELSE IF type = CMD_PHYS_DEFINE THEN {0, 1}
    ELSE IF type = CMD_ENTITY_DESTROY THEN {0}
    ELSE 1..NumVals

CmdTypes ==
    {CMD_ENTITY_CLONE, CMD_ENTITY_DESTROY, CMD_ENTITY_ADD_COMPONENT,
     CMD_ENTITY_REMOVE_COMPONENT, CMD_ENTITY_SET_PIVOT, CMD_ENTITY_SET_TYPE,
     CMD_ENTITY_ADD_FLAGS, CMD_ENTITY_REMOVE_FLAGS, CMD_PHYS_DEFINE}

\* the system of the command's domain processes one command; a CLONE names
\* a slot its sender reserved, as entityAPI_Clone's callers do
CmdProcess ==
    /\ ops < MaxCmdOps
    /\ \E type \in CmdTypes :
       \E e \in IF type = CMD_ENTITY_CLONE THEN hist.reserved
                ELSE hist.issued \cup hist.reserved \cup {ENTITY_INVALID} :
       \E proto \in IF type = CMD_ENTITY_CLONE THEN hist.issued ELSE {ZeroCmd.proto} :
       \E val \in CmdPayloads(type) :
         LET cmd == MkCmd(type, e, proto, val, 0) IN
         /\ reg' = ProcessCommand(reg, cmd)
         /\ lastRet' = e
         /\ hist' = [hist EXCEPT !.cmd = cmd,
                                  !.reserved = IF type = CMD_ENTITY_CLONE
                                               THEN hist.reserved \ {e}
                                               ELSE hist.reserved]
    /\ lastOp' = "Process"
    /\ ops' = ops + 1
    /\ UNCHANGED regFrame

NextCmd == CmdCreate \/ CmdReserve \/ CmdTouch \/ CmdProcess

SpecCmd == InitCmd /\ [][NextCmd]_vars

----------------------------------------------------------------------------
(* SpecBus: the bus and one client *)

\* the commands the bus client pushes: one type, NumVals payloads
BusCmds == {MkCmd(CMD_ANIM_PLAY, ENTITY_INVALID, ENTITY_INVALID, v, 0) : v \in 1..NumVals}

InitBus ==
    /\ bus = CommandBus_Init
    /\ reg = EntityManager_Init
    /\ iter = NoIter
    /\ pc = "idle"
    /\ ops = 0
    /\ lastOp = "init"
    /\ lastRet = TRUE
    /\ shadow = <<>>
    /\ snap = <<>>
    /\ yielded = <<>>
    /\ hist = NoHist
    /\ loop = NoLoop
    /\ hash = SpatialHash_Init
    /\ phys = NoUpdate

\* a producer pushes a command (between passes or in the middle of one)
BusPush ==
    /\ \E cmd \in BusCmds :
         LET r == CommandBus_Push(bus, cmd) IN
         /\ bus' = r.bus
         /\ lastRet' = r.ok
         /\ shadow' = IF r.ok THEN Append(shadow, cmd) ELSE shadow
    /\ lastOp' = "push"
    /\ UNCHANGED <<phys, hash, loop, reg, iter, pc, ops, snap, yielded, hist>>

\* a system starts its consumption pass: CommandBus_GetIterator
BusBeginPass ==
    /\ pc = "idle"
    /\ LET g == CommandBus_GetIterator(bus) IN
         /\ iter' = g.iter
         /\ bus' = g.bus
    /\ pc' = "pass"
    /\ snap' = shadow
    /\ yielded' = <<>>
    /\ lastOp' = "getiter"
    /\ lastRet' = TRUE
    /\ UNCHANGED <<phys, hash, loop, reg, ops, shadow, hist>>

\* one turn of `while (CommandBus_Next(bus, &iter, &cmd))`
BusNext ==
    /\ pc = "pass"
    /\ LET n == CommandBus_Next(bus, iter) IN
         /\ iter' = n.iter
         /\ lastRet' = n.ok
         /\ yielded' = IF n.ok THEN Append(yielded, n.cmd) ELSE yielded
         /\ pc' = IF n.ok THEN "pass" ELSE "done"
    /\ lastOp' = "next"
    /\ UNCHANGED <<phys, hash, loop, bus, reg, ops, shadow, snap, hist>>

\* the pass is over; the client goes back to producing
BusEndPass ==
    /\ pc = "done"
    /\ pc' = "idle"
    /\ lastOp' = "endpass"
    /\ lastRet' = TRUE
    /\ UNCHANGED <<phys, hash, loop, bus, reg, iter, ops, shadow, snap, yielded, hist>>

\* EnginePhase4_Cleanup: a fresh iterator, flushed at once
BusCleanup ==
    /\ pc = "idle"
    /\ LET g == CommandBus_GetIterator(bus) IN
         bus' = CommandBus_Flush(g.bus, g.iter)
    /\ shadow' = <<>>
    /\ lastOp' = "flush"
    /\ lastRet' = TRUE
    /\ UNCHANGED <<phys, hash, loop, reg, iter, pc, ops, snap, yielded, hist>>

NextBus == BusPush \/ BusBeginPass \/ BusNext \/ BusEndPass \/ BusCleanup

SpecBus == InitBus /\ [][NextBus]_vars

----------------------------------------------------------------------------
(* SpecPhase: the phases of Engine_Run and the pushes made in them, in a   *)
(* debug and in a release build                                            *)

NoPhaseHist ==
    [cmd    |-> ZeroCmd,   \* the command of the last CommandBus_Push
     during |-> "logic"]   \* the phase that call was made in

InitPhase ==
    /\ bus = CommandBus_Init
    /\ reg = EntityManager_Init
    /\ iter = NoIter
    /\ pc = "logic"
    /\ ops = 0
    /\ lastOp = "init"
    /\ lastRet = TRUE
    /\ shadow = <<>>
    /\ snap = <<>>
    /\ yielded = <<>>
    /\ hist = NoPhaseHist
    /\ \E nd \in BOOLEAN : loop = [NoLoop EXCEPT !.ndebug = nd]
    /\ hash = SpatialHash_Init
    /\ phys = NoUpdate

phaseFrame == <<reg, ops, hash, loop, phys, busGhosts>>

\* the commands code that holds the bus can push, one of each domain
PhaseCmds ==
    {MkCmd(type, ENTITY_INVALID, ENTITY_INVALID, 1, 0) :
        type \in {CMD_PHYS_DEFINE, CMD_ENTITY_DESTROY, CMD_ANIM_PLAY,
                  CMD_RENDER_SETDEPTHMATH}}

\* CommandBus_Push called by game logic (phase 1), by a hook or a system
\* (phase 2) or by draw code (phase 3, SceneManager_Draw and renderSystem_Draw
\* receive the bus).  A failing assert aborts the program.
PhasePush ==
    /\ pc \in {"logic", "simulation", "render"}
    /\ \E cmd \in PhaseCmds :
         /\ IF ~loop.ndebug /\ ~CommandBus_PushAsserts(bus, cmd)
            THEN /\ pc' = "aborted"
                 /\ lastRet' = FALSE
                 /\ bus' = bus
            ELSE LET p == CommandBus_Push(bus, cmd) IN
                 /\ pc' = pc
                 /\ lastRet' = p.ok
                 /\ bus' = p.bus
         /\ hist' = [cmd |-> cmd, during |-> pc]
    /\ lastOp' = "Push"
    /\ UNCHANGED <<iter, phaseFrame>>

\* EnginePhase2_Simulation and EnginePhase3_RenderState are entered: the
\* first system of the phase takes its snapshot.  Neither writes the bus's
\* current_phase or debug_forbidden_domain.
PhaseEnter ==
    /\ pc \in {"logic", "simulation"}
    /\ pc = "simulation" => ~CommandBus_Next(bus, iter).ok
    /\ LET g == CommandBus_GetIterator(bus) IN
         /\ iter' = g.iter
         /\ bus' = g.bus
    /\ pc' = IF pc = "logic" THEN "simulation" ELSE "render"
    /\ lastOp' = "Enter"
    /\ lastRet' = TRUE
    /\ UNCHANGED <<hist, phaseFrame>>

\* one turn of the loop of a system's ProcessCommands
PhaseStep ==
    /\ pc \in {"simulation", "render"}
    /\ LET n == CommandBus_Next(bus, iter) IN
         /\ n.ok
         /\ iter' = n.iter
    /\ lastOp' = "Step"
    /\ lastRet' = TRUE
    /\ UNCHANGED <<bus, pc, hist, phaseFrame>>

\* renderSystem_ProcessCommands is done; EnginePhase4_Cleanup
PhaseCleanup ==
    /\ pc = "render"
    /\ ~CommandBus_Next(bus, iter).ok
    /\ LET g == CommandBus_GetIterator(bus) IN
         bus' = CommandBus_Flush(g.bus, g.iter)
    /\ pc' = "logic"
    /\ lastOp' = "Cleanup"
    /\ lastRet' = TRUE
    /\ UNCHANGED <<iter, hist, phaseFrame>>

NextPhase == PhasePush \/ PhaseEnter \/ PhaseStep \/ PhaseCleanup

SpecPhase == InitPhase /\ [][NextPhase]_vars

----------------------------------------------------------------------------
(* The physics update (physics_system.c): SpecPhys *)
(* The game creates circle bodies on the x axis, culls them and pushes     *)
(* physics commands; PhysicsSystem_Update runs phase by phase and the      *)
(* frame's cleanup flushes the bus.  The last slot of the registry is      *)
(* never handed out: once it is, max_used_bound is MAX_ENTITIES and the    *)
(* loops "for (i = 0; i <= bound; i++)" of the physics system read         *)
(* state_flags[MAX_ENTITIES], past the end of the array.                   *)

CMD_PHYS_LOAD_STATIC == CMD_DOMAIN_PHYS + 2
CMD_PHYS_RESET       == CMD_DOMAIN_PHYS + 4

\* the loop of PhysicsSystem_ProcessCommands: the registry and the hash
\* after every command of the snapshot
RECURSIVE ProcessCommands_From(_, _, _, _)
ProcessCommands_From(r, h, b, it) ==
    LET n == CommandBus_Next(b, it) IN
    IF ~n.ok THEN [reg |-> r, hash |-> h]
    ELSE IF n.cmd.type = CMD_PHYS_DEFINE
    THEN ProcessCommands_From(PhysicsSystem_ProcessCommand(r, n.cmd), h, b, n.iter)
    ELSE IF n.cmd.type = CMD_PHYS_LOAD_STATIC
    THEN ProcessCommands_From(r, PhysicsSystem_LoadStaticGeometry(r, h), b, n.iter)
    ELSE IF n.cmd.type = CMD_PHYS_RESET
    THEN ProcessCommands_From(r, SpatialHash_ClearAll(h), b, n.iter)
    ELSE ProcessCommands_From(r, h, b, n.iter)

PhysicsSystem_ProcessCommands(r, h, b) ==
    ProcessCommands_From(r, h, b, CommandBus_GetIterator(b).iter)

\* the commands between tail and head, oldest first
RECURSIVE PendingFrom(_, _)
PendingFrom(b, it) ==
    LET n == CommandBus_Next(b, it) IN
    IF ~n.ok THEN <<>> ELSE <<n.cmd>> \o PendingFrom(b, n.iter)
Pending(b) == PendingFrom(b, CommandBus_GetIterator(b).iter)

\* where the two nested for loops of PhysicsSystem_Update go after
\* Phase3_ResolveContacts: the next solver round, the next sub-step, or out
AfterResolve_OneRoundOnly(p) ==
    IF p.step + 1 < PHYS_SUB_STEPS
    THEN [pc |-> "integrate", phys |-> [p EXCEPT !.step = p.step + 1, !.iter = 0]]
    ELSE [pc |-> "cleanup", phys |-> [p EXCEPT !.step = 0, !.iter = 0, !.subDt = 0]]
AfterResolve(p) ==
    IF p.iter + 1 < PHYS_SOLVER_ITERATIONS
    THEN [pc |-> "detect", phys |-> [p EXCEPT !.iter = p.iter + 1]]
    ELSE IF p.step + 1 < PHYS_SUB_STEPS
    THEN [pc |-> "integrate", phys |-> [p EXCEPT !.step = p.step + 1, !.iter = 0]]
    ELSE [pc |-> "cleanup", phys |-> [p EXCEPT !.step = 0, !.iter = 0, !.subDt = 0]]

\* the bodies the game creates: circles half a pixel across
BodySize == Unit \div 2
BodyPositions == {0, 400, 900}
BodyVelocities == {0, 20000}
BodyFlags ==
    {SET_LAYER({L_ENEMY}) \cup SET_MASK({L_ENEMY}),
     SET_LAYER({L_ENEMY}) \cup SET_MASK({L_ENEMY}) \cup {FLAG_ALWAYS_AWAKE},
     SET_LAYER({L_ENEMY}) \cup SET_MASK({L_PLAYER})}
\* the frame times PhysicsSystem_Update is called with, in milliseconds
FrameTimes == {0, 16}

NoPhysHist ==
    [trace   |-> <<>>,   \* the phases the last update has run so far
     dt      |-> 0,      \* the dt that update was called with
     pending |-> <<>>,   \* the commands on the bus when it was called
     before  |-> EntityManager_Init,   \* the registry before the last phase
     woken   |-> {}]     \* bodies contacts have woken in this sub-step

InitPhys ==
    /\ bus = CommandBus_Init
    /\ reg = EntityManager_Init
    /\ iter = NoIter
    /\ pc = "logic"
    /\ ops = 0
    /\ lastOp = "init"
    /\ lastRet = TRUE
    /\ shadow = <<>>
    /\ snap = <<>>
    /\ yielded = <<>>
    /\ hist = NoPhysHist
    /\ loop = NoLoop
    /\ hash = SpatialHash_Init
    /\ phys = NoUpdate

physFrame == <<iter, loop, busGhosts>>

\* game logic creates a body as ControlSystem_HandleDebugSpawning does:
\* EntityManager_Create, the velocity written into the registry, then
\* CMD_PHYS_DEFINE pushed (here: or not pushed); the size is set through
\* EntityManager_SetData
PhysSpawn ==
    /\ pc = "logic"
    /\ ops < MaxPhysOps
    /\ reg.free_count > 1
    /\ \E position \in BodyPositions, velocity \in BodyVelocities, flags \in BodyFlags,
          define \in {"none", "dynamic", "static"} :
         LET c == EntityManager_Create(reg, TYPE_ENEMY, position,
                                       {COMP_PHYSICS, COMP_COLLISION_Circle}, flags)
             e == c.e
             p == IF define = "none" THEN [bus |-> bus, ok |-> TRUE]
                  ELSE CommandBus_Push(bus, MkCmd(CMD_PHYS_DEFINE, e, ENTITY_INVALID,
                                                  IF define = "static" THEN 1 ELSE 0, 0))
         IN /\ ENTITY_IS_VALID(e)
            /\ reg' = [c.reg EXCEPT !.size[e.id] = BodySize, !.vel[e.id] = velocity]
            /\ bus' = p.bus
            /\ lastRet' = p.ok
    /\ ops' = ops + 1
    /\ lastOp' = "Spawn"
    /\ UNCHANGED <<pc, hash, phys, hist, physFrame>>

\* ControlSystem_UpdateSleepState marks a body far from the camera target
PhysCull ==
    /\ pc = "logic"
    /\ ops < MaxPhysOps
    /\ \E i \in Slots :
         /\ i < reg.max_used_bound
         /\ FLAG_ACTIVE \in reg.state_flags[i]
         /\ FLAG_CULLED \notin reg.state_flags[i]
         /\ reg' = [reg EXCEPT !.state_flags[i] = @ \cup {FLAG_CULLED}]
    /\ ops' = ops + 1
    /\ lastOp' = "Cull"
    /\ lastRet' = TRUE
    /\ UNCHANGED <<bus, pc, hash, phys, hist, physFrame>>

\* the game asks for the static layer to be loaded or for a reset
PhysRequest ==
    /\ pc = "logic"
    /\ ops < MaxPhysOps
    /\ \E type \in {CMD_PHYS_LOAD_STATIC, CMD_PHYS_RESET} :
         LET p == CommandBus_Push(bus, MkCmd(type, ENTITY_INVALID, ENTITY_INVALID, 0, 0))
         IN /\ bus' = p.bus
            /\ lastRet' = p.ok
    /\ ops' = ops + 1
    /\ lastOp' = "Request"
    /\ UNCHANGED <<reg, pc, hash, phys, hist, physFrame>>

\* PhysicsSystem_Update up to the sub-step loop: the dt checks and phase 0
PhysUpdate ==
    /\ pc = "logic"
    /\ ops < MaxPhysOps
    /\ \E dt \in FrameTimes :
         IF dt <= 0
         THEN /\ lastRet' = FALSE
              /\ hist' = [NoPhysHist EXCEPT !.dt = dt, !.pending = Pending(bus),
                                            !.before = reg]
              /\ UNCHANGED <<bus, reg, pc, hash, phys>>
         ELSE LET clamped == IF dt > 50 THEN 50 ELSE dt
                  done == PhysicsSystem_ProcessCommands(reg, hash, bus)
              IN /\ reg' = done.reg
                 /\ hash' = done.hash
                 /\ bus' = CommandBus_GetIterator(bus).bus
                 /\ phys' = [phys EXCEPT !.step = 0, !.iter = 0,
                                         !.subDt = clamped \div PHYS_SUB_STEPS]
                 /\ pc' = "integrate"
                 /\ lastRet' = TRUE
                 /\ hist' = [NoPhysHist EXCEPT !.trace = <<"commands">>, !.dt = dt,
                                               !.pending = Pending(bus), !.before = reg]
    /\ ops' = ops + 1
    /\ lastOp' = "Update"
    /\ UNCHANGED physFrame

PhysIntegrate ==
    /\ pc = "integrate"
    /\ reg' = Phase1_Integration(reg, phys.subDt)
    /\ pc' = "broad"
    /\ hist' = [hist EXCEPT !.trace = Append(@, "integrate"), !.before = reg]
    /\ lastOp' = "Integrate"
    /\ lastRet' = TRUE
    /\ UNCHANGED <<bus, ops, hash, phys, physFrame>>

PhysBroadPhase ==
    /\ pc = "broad"
    /\ hash' = Phase2_BroadPhase(reg, hash)
    /\ pc' = "detect"
    /\ hist' = [hist EXCEPT !.trace = Append(@, "broad"), !.before = reg, !.woken = {}]
    /\ lastOp' = "BroadPhase"
    /\ lastRet' = TRUE
    /\ UNCHANGED <<bus, reg, ops, phys, physFrame>>

PhysDetect ==
    /\ pc = "detect"
    /\ LET d == Phase3_DetectContacts(reg, hash) IN
         /\ hash' = d.hash
         /\ phys' = [phys EXCEPT !.contacts = d.contacts]
    /\ pc' = "resolve"
    /\ hist' = [hist EXCEPT !.trace = Append(@, "detect"), !.before = reg]
    /\ lastOp' = "Detect"
    /\ lastRet' = TRUE
    /\ UNCHANGED <<bus, reg, ops, physFrame>>

PhysResolve ==
    /\ pc = "resolve"
    /\ reg' = Phase3_ResolveContacts(reg, phys.contacts)
    /\ LET a == AfterResolve(phys) IN
         /\ pc' = a.pc
         /\ phys' = a.phys
    /\ hist' = [hist EXCEPT !.trace = Append(@, "resolve"),
                            !.woken = @ \cup {i \in Slots :
                                                /\ FLAG_SLEEPING \in reg.state_flags[i]
                                                /\ FLAG_SLEEPING \notin reg'.state_flags[i]}]
    /\ lastOp' = "Resolve"
    /\ lastRet' = TRUE
    /\ UNCHANGED <<bus, ops, hash, physFrame>>

\* EnginePhase4_Cleanup
PhysCleanup ==
    /\ pc = "cleanup"
    /\ LET g == CommandBus_GetIterator(bus) IN
         bus' = CommandBus_Flush(g.bus, g.iter)
    /\ pc' = "logic"
    /\ lastOp' = "Cleanup"
    /\ lastRet' = TRUE
    /\ UNCHANGED <<reg, ops, hash, phys, hist, physFrame>>

NextPhys ==
    \/ PhysSpawn \/ PhysCull \/ PhysRequest \/ PhysUpdate
    \/ PhysIntegrate \/ PhysBroadPhase \/ PhysDetect \/ PhysResolve \/ PhysCleanup

SpecPhys == InitPhys /\ [][NextPhys]_vars

----------------------------------------------------------------------------
(* The contact solver on one pair of circles: SpecSolve *)
(* Two circles of radius 8 are set up as the game sets bodies up, A in     *)
(* slot 0 at the origin and B in slot 1; the pair is handed to the narrow  *)
(* phase and the contact stream to the solver, round after round.          *)

PairSize == 16 * Unit
PairPositions == {0, 4 * Unit, 10 * Unit, 15 * Unit, 16 * Unit, 20 * Unit}
PairVelocities == {-20 * Unit, 0, 20 * Unit}

\* the registry after the game has created A and B and phase 0 has handled
\* their CMD_PHYS_DEFINE commands
PairRegistry(posB, velA, staticB) ==
    LET comps == {COMP_PHYSICS, COMP_COLLISION_Circle}
        flags == SET_LAYER({L_ENEMY}) \cup SET_MASK({L_ENEMY})
        a  == EntityManager_Create(EntityManager_Init, TYPE_ENEMY, 0, comps, flags)
        ra == ConfigureBody([a.reg EXCEPT !.size[a.e.id] = PairSize,
                                          !.vel[a.e.id] = velA], a.e.id, FALSE)
        b  == EntityManager_Create(ra, TYPE_ENEMY, posB, comps, flags)
    IN ConfigureBody([b.reg EXCEPT !.size[b.e.id] = PairSize], b.e.id, staticB)

InitSolve ==
    /\ bus = CommandBus_Init
    /\ \E posB \in PairPositions, velA \in PairVelocities, staticB \in BOOLEAN :
         /\ reg = PairRegistry(posB, velA, staticB)
         /\ hist = [start |-> reg, before |-> reg]
    /\ iter = NoIter
    /\ pc = "detect"
    /\ ops = 0
    /\ lastOp = "init"
    /\ lastRet = TRUE
    /\ shadow = <<>>
    /\ snap = <<>>
    /\ yielded = <<>>
    /\ loop = NoLoop
    /\ hash = SpatialHash_Init
    /\ phys = NoUpdate

solveFrame == <<bus, iter, ops, loop, hash, busGhosts>>

\* the narrow phase of Phase3_DetectContacts for body 0 and its candidate 1
SolveDetect ==
    /\ pc = "detect"
    /\ phys' = [phys EXCEPT !.contacts = DetectPair(reg, <<>>, 0, 1)]
    /\ hist' = [hist EXCEPT !.before = reg]
    /\ pc' = "resolve"
    /\ lastOp' = "Detect"
    /\ lastRet' = TRUE
    /\ UNCHANGED <<reg, solveFrame>>

\* Phase3_ResolveContacts; iter counts the rounds done
SolveResolve ==
    /\ pc = "resolve"
    /\ reg' = Phase3_ResolveContacts(reg, phys.contacts)
    /\ phys' = [phys EXCEPT !.iter = phys.iter + 1]
    /\ pc' = IF phys.iter + 1 < MaxRounds THEN "detect" ELSE "done"
    /\ lastOp' = "Resolve"
    /\ lastRet' = TRUE
    /\ UNCHANGED <<hist, solveFrame>>

NextSolve == SolveDetect \/ SolveResolve

SpecSolve == InitSolve /\ [][NextSolve]_vars

----------------------------------------------------------------------------
(* The broad phase on a changing registry: SpecBroad *)
(* The game creates, destroys, culls and redefines bodies between          *)
(* sub-steps; Phase1_Integration moves them and Phase2_BroadPhase rebuilds *)
(* the dynamic layer.  Small bodies cover one cell, large ones several.    *)

BroadSizes == {Unit \div 2, 2 * Unit}
\* 1.7 px is one sub-step of the faster velocity short of a cell boundary
BroadPositions == {1700, 3 * Unit}
BroadVelocities == {0, 40 * Unit}
\* dt / PHYS_SUB_STEPS of a 16 ms frame, in milliseconds
BroadSubDt == 16 \div PHYS_SUB_STEPS

InitBroad ==
    /\ bus = CommandBus_Init
    /\ reg = EntityManager_Init
    /\ iter = NoIter
    /\ pc = "logic"
    /\ ops = 0
    /\ lastOp = "init"
    /\ lastRet = TRUE
    /\ shadow = <<>>
    /\ snap = <<>>
    /\ yielded = <<>>
    /\ hist = [before |-> EntityManager_Init,   \* the registry at the last broad phase
               layer  |-> SpatialHash_Init]     \* the hash that broad phase started from
    /\ loop = NoLoop
    /\ hash = SpatialHash_Init
    /\ phys = NoUpdate

broadFrame == <<bus, iter, pc, loop, phys, busGhosts>>

\* EntityManager_Create, then size and velocity written into the registry
BroadSpawn ==
    /\ ops < MaxBroadOps
    /\ reg.free_count > 1
    /\ \E position \in BroadPositions, size \in BroadSizes, velocity \in BroadVelocities :
         LET c == EntityManager_Create(reg, TYPE_ENEMY, position,
                                       {COMP_PHYSICS, COMP_COLLISION_Circle},
                                       SET_LAYER({L_ENEMY}) \cup SET_MASK({L_ENEMY}))
         IN /\ ENTITY_IS_VALID(c.e)
            /\ reg' = [c.reg EXCEPT !.size[c.e.id] = size, !.vel[c.e.id] = velocity]
    /\ ops' = ops + 1
    /\ lastOp' = "Spawn"
    /\ lastRet' = TRUE
    /\ UNCHANGED <<hash, hist, broadFrame>>

\* EntityManager_Destroy of a live body
BroadDestroy ==
    /\ ops < MaxBroadOps
    /\ \E i \in Slots :
         /\ FLAG_ACTIVE \in reg.state_flags[i]
         /\ reg' = EntityManager_Destroy(reg, [id |-> i, generation |-> reg.generations[i]])
    /\ ops' = ops + 1
    /\ lastOp' = "Destroy"
    /\ lastRet' = TRUE
    /\ UNCHANGED <<hash, hist, broadFrame>>

\* ControlSystem_UpdateSleepState sets or clears FLAG_CULLED
BroadCull ==
    /\ ops < MaxBroadOps
    /\ \E i \in Slots :
         /\ FLAG_ACTIVE \in reg.state_flags[i]
         /\ reg' = [reg EXCEPT !.state_flags[i] =
                        IF FLAG_CULLED \in @ THEN @ \ {FLAG_CULLED} ELSE @ \cup {FLAG_CULLED}]
    /\ ops' = ops + 1
    /\ lastOp' = "Cull"
    /\ lastRet' = TRUE
    /\ UNCHANGED <<hash, hist, broadFrame>>

\* a CMD_PHYS_DEFINE command handled in phase 0: the body becomes static or
\* dynamic
BroadDefine ==
    /\ ops < MaxBroadOps
    /\ \E i \in Slots, is_static \in BOOLEAN :
         /\ FLAG_ACTIVE \in reg.state_flags[i]
         /\ reg' = PhysicsSystem_ProcessCommand(
                     reg, MkCmd(CMD_PHYS_DEFINE, [id |-> i, generation |-> reg.generations[i]],
                                ENTITY_INVALID, IF is_static THEN 1 ELSE 0, 0))
    /\ ops' = ops + 1
    /\ lastOp' = "Define"
    /\ lastRet' = TRUE
    /\ UNCHANGED <<hash, hist, broadFrame>>

\* phase 1 of a sub-step
BroadIntegrate ==
    /\ ops < MaxBroadOps
    /\ reg' = Phase1_Integration(reg, BroadSubDt)
    /\ ops' = ops + 1
    /\ lastOp' = "Integrate"
    /\ lastRet' = TRUE
    /\ UNCHANGED <<hash, hist, broadFrame>>

\* phase 2 of a sub-step
BroadPhase ==
    /\ ops < MaxBroadOps
    /\ hash' = Phase2_BroadPhase(reg, hash)
    /\ hist' = [before |-> reg, layer |-> hash]
    /\ ops' = ops + 1
    /\ lastOp' = "BroadPhase"
    /\ lastRet' = TRUE
    /\ UNCHANGED <<reg, broadFrame>>

NextBroad ==
    \/ BroadSpawn \/ BroadDestroy \/ BroadCull \/ BroadDefine \/ BroadIntegrate
    \/ BroadPhase

SpecBroad == InitBroad /\ [][NextBroad]_vars

----------------------------------------------------------------------------
(* The counters of the registry under every way of changing it: SpecCount *)
(* Direct EntityManager calls and processed commands as in SpecReg and     *)
(* SpecCmd, and flag commands whose value the caller is free to choose.    *)

\* entityAPI_AddFlags / entityAPI_RemoveFlags pass the caller's flags on
\* unchecked; here the value names FLAG_ACTIVE
CountFlags ==
    /\ ops < MaxCmdOps
    /\ \E type \in {CMD_ENTITY_ADD_FLAGS, CMD_ENTITY_REMOVE_FLAGS} :
       \E e \in hist.issued \cup hist.reserved :
         LET cmd == MkCmd(type, e, ZeroCmd.proto, {FLAG_ACTIVE}, 0) IN
         /\ reg' = ProcessCommand(reg, cmd)
         /\ lastRet' = e
         /\ hist' = [hist EXCEPT !.cmd = cmd]
    /\ lastOp' = "Flags"
    /\ ops' = ops + 1
    /\ UNCHANGED regFrame

NextCount ==
    \/ CmdCreate \/ CmdReserve \/ CmdProcess
    \/ RegDestroy \/ RegReturn \/ RegReset
    \/ CountFlags

SpecCount == InitCmd /\ [][NextCount]_vars

----------------------------------------------------------------------------
(* The bus under clients that keep their iterators: SpecIter *)
(* A client may hold several CommandIterator values, advance any of them   *)
(* and hand any of them to CommandBus_Flush, in any order.                 *)

InitIter ==
    /\ bus = CommandBus_Init
    /\ reg = EntityManager_Init
    /\ iter = NoIter
    /\ pc = "idle"
    /\ ops = 0
    /\ lastOp = "init"
    /\ lastRet = TRUE
    /\ shadow = <<>>
    /\ snap = <<>>
    /\ yielded = <<>>
    /\ hist = [held   |-> {},                \* the iterators the clients hold
               before |-> CommandBus_Init]   \* the bus before the last Flush
    /\ loop = NoLoop
    /\ hash = SpatialHash_Init
    /\ phys = NoUpdate

iterFrame == <<reg, pc, loop, hash, phys, busGhosts>>

IterPush ==
    /\ ops < MaxIterOps
    /\ \E cmd \in BusCmds :
         LET r == CommandBus_Push(bus, cmd) IN
         /\ bus' = r.bus
         /\ lastRet' = r.ok
    /\ ops' = ops + 1
    /\ lastOp' = "push"
    /\ UNCHANGED <<iter, hist, iterFrame>>

\* CommandBus_GetIterator; the client keeps the iterator, in place of one it
\* held when it holds MaxHeld already
IterTake ==
    /\ ops < MaxIterOps
    /\ LET g == CommandBus_GetIterator(bus) IN
         /\ bus' = g.bus
         /\ iter' = g.iter
         /\ \E old \in hist.held \cup {g.iter} :
              /\ (Cardinality(hist.held \cup {g.iter}) > MaxHeld) => old # g.iter
              /\ hist' = [hist EXCEPT !.held =
                            IF Cardinality(hist.held \cup {g.iter}) > MaxHeld
                            THEN (hist.held \ {old}) \cup {g.iter}
                            ELSE hist.held \cup {g.iter}]
    /\ ops' = ops + 1
    /\ lastOp' = "getiter"
    /\ lastRet' = TRUE
    /\ UNCHANGED iterFrame

\* CommandBus_Next on an iterator the client holds
IterNext ==
    /\ ops < MaxIterOps
    /\ \E it \in hist.held :
         LET n == CommandBus_Next(bus, it) IN
         /\ iter' = n.iter
         /\ lastRet' = n.ok
         /\ hist' = [hist EXCEPT !.held = (hist.held \ {it}) \cup {n.iter}]
    /\ ops' = ops + 1
    /\ lastOp' = "next"
    /\ UNCHANGED <<bus, iterFrame>>

\* CommandBus_Flush with an iterator the client holds
IterFlush ==
    /\ ops < MaxIterOps
    /\ \E it \in hist.held :
         /\ bus' = CommandBus_Flush(bus, it)
         /\ iter' = it
    /\ hist' = [hist EXCEPT !.before = bus]
    /\ ops' = ops + 1
    /\ lastOp' = "flush"
    /\ lastRet' = TRUE
    /\ UNCHANGED iterFrame

NextIter == IterPush \/ IterTake \/ IterNext \/ IterFlush

SpecIter == InitIter /\ [][NextIter]_vars

----------------------------------------------------------------------------
(* The per-entity loops on a registry that may be full: SpecBound *)
(* The game creates and destroys bodies, every slot included, and the      *)
(* loops of the physics system run over the registry.                      *)

\* the indices i at which a loop "for (i = 0; i <= bound; i++)" with
\* bound = max_used_bound reads state_flags[i] and component_masks[i]
LoopIndices(r) == 0..r.max_used_bound

PhysLoops == {"LoadStaticGeometry", "Integration", "BroadPhase", "DetectContacts"}

InitBound ==
    /\ bus = CommandBus_Init
    /\ reg = EntityManager_Init
    /\ iter = NoIter
    /\ pc = "logic"
    /\ ops = 0
    /\ lastOp = "init"
    /\ lastRet = TRUE
    /\ shadow = <<>>
    /\ snap = <<>>
    /\ yielded = <<>>
    /\ hist = [reads |-> {}]   \* the indices the last loop read the registry at
    /\ loop = NoLoop
    /\ hash = SpatialHash_Init
    /\ phys = NoUpdate

\* EntityManager_Create with the size and velocity written afterwards; the
\* last free slot is handed out like any other
BoundSpawn ==
    /\ ops < MaxBroadOps
    /\ \E position \in BodyPositions, velocity \in BodyVelocities :
         LET c == EntityManager_Create(reg, TYPE_ENEMY, position,
                                       {COMP_PHYSICS, COMP_COLLISION_Circle},
                                       SET_LAYER({L_ENEMY}) \cup SET_MASK({L_ENEMY}))
         IN /\ ENTITY_IS_VALID(c.e)
            /\ reg' = [c.reg EXCEPT !.size[c.e.id] = BodySize, !.vel[c.e.id] = velocity]
    /\ ops' = ops + 1
    /\ lastOp' = "Spawn"
    /\ lastRet' = TRUE
    /\ UNCHANGED <<hash, hist, broadFrame>>

\* one of the loops runs.  With max_used_bound = MAX_ENTITIES its last turn
\* reads state_flags[MAX_ENTITIES], past the end of the array, which is
\* undefined: the model records it in oob and goes no further.
BoundLoop ==
    /\ ops < MaxBroadOps
    /\ \E l \in PhysLoops :
         /\ lastOp' = l
         /\ hist' = [hist EXCEPT !.reads = LoopIndices(reg)]
         /\ IF reg.max_used_bound >= MAX_ENTITIES
            THEN /\ reg' = [reg EXCEPT !.oob = TRUE]
                 /\ UNCHANGED <<hash, phys>>
            ELSE IF l = "LoadStaticGeometry"
            THEN /\ hash' = PhysicsSystem_LoadStaticGeometry(reg, hash)
                 /\ UNCHANGED <<reg, phys>>
            ELSE IF l = "Integration"
            THEN /\ reg' = Phase1_Integration(reg, BroadSubDt)
                 /\ UNCHANGED <<hash, phys>>
            ELSE IF l = "BroadPhase"
            THEN /\ hash' = Phase2_BroadPhase(reg, hash)
                 /\ UNCHANGED <<reg, phys>>
            ELSE LET d == Phase3_DetectContacts(reg, hash) IN
                 /\ hash' = d.hash
                 /\ phys' = [phys EXCEPT !.contacts = d.contacts]
                 /\ UNCHANGED reg
    /\ ops' = ops + 1
    /\ lastRet' = TRUE
    /\ UNCHANGED <<bus, iter, pc, loop, busGhosts>>

NextBound == BoundSpawn \/ BroadDestroy \/ BoundLoop

SpecBound == InitBound /\ [][NextBound]_vars

----------------------------------------------------------------------------
(* SpecChains: the spatial hash under any sequence of the calls that     *)
(* change its node pools, with any entity and rectangle in each            *)

chainFrame == <<bus, reg, iter, pc, loop, phys, hist, busGhosts>>

ChainAddStatic ==
    /\ ops < MaxChainOps
    /\ \E id \in Slots : \E rect \in Rects :
         /\ hash' = SpatialHash_AddStatic(hash, id, rect)
         /\ lastRet' = id
    /\ lastOp' = "AddStatic"
    /\ ops' = ops + 1
    /\ UNCHANGED chainFrame

ChainAddDynamic ==
    /\ ops < MaxChainOps
    /\ \E id \in Slots : \E rect \in Rects :
         /\ hash' = SpatialHash_AddDynamic(hash, id, rect)
         /\ lastRet' = id
    /\ lastOp' = "AddDynamic"
    /\ ops' = ops + 1
    /\ UNCHANGED chainFrame

\* RemoveStatic with any rectangle, also one the entity was not inserted at
ChainRemoveStatic ==
    /\ ops < MaxChainOps
    /\ \E id \in Slots : \E rect \in Rects :
         /\ hash' = SpatialHash_RemoveStatic(hash, id, rect)
         /\ lastRet' = id
    /\ lastOp' = "RemoveStatic"
    /\ ops' = ops + 1
    /\ UNCHANGED chainFrame

ChainClearDynamic ==
    /\ ops < MaxChainOps
    /\ hash' = SpatialHash_ClearDynamic(hash)
    /\ lastRet' = 0
    /\ lastOp' = "ClearDynamic"
    /\ ops' = ops + 1
    /\ UNCHANGED chainFrame

ChainClearAll ==
    /\ ops < MaxChainOps
    /\ hash' = SpatialHash_ClearAll(hash)
    /\ lastRet' = 0
    /\ lastOp' = "ClearAll"
    /\ ops' = ops + 1
    /\ UNCHANGED chainFrame

NextChains ==
    \/ ChainAddStatic \/ ChainAddDynamic \/ ChainRemoveStatic
    \/ ChainClearDynamic \/ ChainClearAll

SpecChains == InitHash /\ [][NextChains]_vars

----------------------------------------------------------------------------
(* Claims about the registry *)

\* C1 as the specification words it: a handle returned by Create is valid at
\* once, and a handle on which Destroy took effect is never valid again.
C1_DestroyedHandleNeverValidAgain ==
    /\ (lastOp = "Create" /\ ENTITY_IS_VALID(lastRet)) => EntityManager_IsValid(reg, lastRet)
    /\ \A d \in hist.destroyed : ~EntityManager_IsValid(reg, d.e)

\* C1: a handle returned by Create is valid immediately after the call; a
\* handle on which Destroy took effect is not valid, also after its id has been
\* handed out again, as long as its slot has been destroyed fewer than
\* 2^GenBits - 1 further times (the generation counter has not wrapped round
\* to the handle's generation).
C1_DestroyedHandleInvalidUntilWrap ==
    /\ (lastOp = "Create" /\ ENTITY_IS_VALID(lastRet)) => EntityManager_IsValid(reg, lastRet)
    /\ \A d \in hist.destroyed :
         EntityManager_IsValid(reg, d.e) => hist.bumps[d.e.id] - d.n >= GenMod - 1

\* a destroyed handle's id has been handed out again by a later Create and
\* the destroyed handle is not valid
C1_Witness ==
    /\ lastOp = "Create"
    /\ ENTITY_IS_VALID(lastRet)
    /\ \E d \in hist.destroyed :
         /\ d.e.id = lastRet.id
         /\ d.e.generation # lastRet.generation
         /\ ~EntityManager_IsValid(reg, d.e)

----------------------------------------------------------------------------
(* Claims about the bus *)

IsPrefix(s, t) == Len(s) <= Len(t) /\ s = SubSeq(t, 1, Len(s))

\* C3: pushing k <= capacity commands onto the bus and then iterating from
\* GetIterator with Next until it returns false yields exactly those k
\* commands, each exactly once, in push order.
C3_IterationYieldsPushOrder ==
    pc = "done" => yielded = snap

\* C3 witness: a full buffer of commands with different payloads was pushed
\* onto the empty bus and iterated to the end.
C3_Witness ==
    /\ pc = "done"
    /\ Len(yielded) = CMD_BUFFER_SIZE
    /\ bus.tail = 0
    /\ yielded[1].val # yielded[Len(yielded)].val

\* C4: Push returns false if and only if head - tail >= capacity at the
\* call (that is, when capacity accepted commands are unconsumed), and a
\* failed Push leaves head, tail, Count and every buffered command unchanged.
C4_PushFailsIffFull ==
    [][lastOp' = "push" =>
         /\ (lastRet' = FALSE) <=> (CommandBus_Count(bus) >= CMD_BUFFER_SIZE)
         /\ (lastRet' = FALSE) <=> (Len(shadow) >= CMD_BUFFER_SIZE)
         /\ (lastRet' = FALSE) => bus' = bus
         /\ (lastRet' = TRUE) => CommandBus_Count(bus') = CommandBus_Count(bus) + 1
      ]_vars

\* C4 witness: a Push has just failed on a full buffer.
C4_Witness ==
    /\ lastOp = "push"
    /\ lastRet = FALSE
    /\ Len(shadow) = CMD_BUFFER_SIZE
    /\ CommandBus_Count(bus) = CMD_BUFFER_SIZE

\* C5: an iterator yields exactly the commands that were in [tail, head) at
\* the snapshot: what Next has returned so far is a prefix of the snapshot
\* (a command pushed later is never returned), the commands still to come
\* are the rest of the snapshot, and Next returns none once current == end.
C5_SnapshotFixesVisibleSet ==
    /\ [](pc \in {"pass", "done"} =>
            /\ IsPrefix(yielded, snap)
            /\ CommandIterator_Remaining(iter) = Len(snap) - Len(yielded))
    /\ [][(lastOp' = "next" /\ iter.current = iter.end) =>
            (lastRet' = FALSE /\ iter' = iter /\ yielded' = yielded)]_vars
    /\ [][(lastOp' = "next" /\ iter.current # iter.end) =>
            (lastRet' = TRUE /\ Len(yielded') = Len(yielded) + 1)]_vars

\* C5 witness: commands were pushed after the snapshot was taken, and the
\* iterator has ended without returning them.
C5_Witness ==
    /\ pc = "done"
    /\ lastRet = FALSE
    /\ Len(snap) >= 1
    /\ Len(shadow) > Len(snap)
    /\ yielded = snap

----------------------------------------------------------------------------
(* Claims about the engine frame *)

\* the ids on the free list
FreeIds(r) == {r.free_list[i] : i \in 0..(r.free_count - 1)}

C6_NoAcceptedCommandDropped == hist.dropped = {}

\* C7 as the specification words it: the commands are applied in the order
\* they were pushed, whatever their domains.
C7_AppliedInPushOrder ==
    \A i, j \in 1..Len(hist.applyLog) :
      i < j => hist.applyLog[i].uid < hist.applyLog[j].uid

\* C7: two commands of the same domain are applied in the order they were
\* pushed.
C7_AppliedInPushOrderPerDomain ==
    \A i, j \in 1..Len(hist.applyLog) :
      (i < j /\ hist.applyLog[i].domain = hist.applyLog[j].domain)
        => hist.applyLog[i].uid < hist.applyLog[j].uid

\* two commands of one domain have been applied, and an entity command has
\* been applied before a physics command pushed earlier
C7_Witness ==
    /\ \E i, j \in 1..Len(hist.applyLog) :
         /\ i < j
         /\ hist.applyLog[i].domain = hist.applyLog[j].domain
    /\ \E i, j \in 1..Len(hist.applyLog) :
         /\ i < j
         /\ hist.applyLog[i].domain = CMD_DOMAIN_ENTITY
         /\ hist.applyLog[j].domain = CMD_DOMAIN_PHYS
         /\ hist.applyLog[i].uid > hist.applyLog[j].uid

\* C8: a command pushed by a hook during EntitySystem_ProcessCommands is not
\* handed to that pass; every turn of the pass's loop leaves the snapshot's end
\* where it was and takes one command off what remains of the snapshot, so
\* the pass ends after as many turns as the bus held when it began.
C8_HookPushesNotSeenInPass ==
    /\ [](hist.passPushed \cap hist.passSeen = {})
    /\ [](pc = "entity" =>
            Cardinality(hist.passSeen) + CommandIterator_Remaining(iter)
              = U32Sub(iter.end, bus.tail))
    /\ [][lastOp' = "EntityStep" =>
            /\ iter'.end = iter.end
            /\ CommandIterator_Remaining(iter') = CommandIterator_Remaining(iter) - 1]_vars

\* the entity pass has ended and a command a hook pushed during it is still
\* on the bus, not handled
C8_Witness ==
    /\ lastOp = "EntityDone"
    /\ hist.passPushed # {}
    /\ hist.passPushed \cap Logged = {}
    /\ hist.passPushed \subseteq RangeUids(bus, bus.tail, bus.head)

\* the validation of case CMD_ENTITY_SPAWN / CLONE fails for cmd in registry r
SpawnValidationFails(r, cmd) ==
    LET dst == cmd.entity
        src == cmd.proto
    IN \/ dst.id = src.id
       \/ dst.id >= MAX_ENTITIES
       \/ src.id >= MAX_ENTITIES
       \/ FLAG_ACTIVE \in r.state_flags[dst.id]
       \/ r.generations[dst.id] # dst.generation
       \/ ~(FLAG_ACTIVE \in r.state_flags[src.id] /\ r.generations[src.id] = src.generation)

SpawnTypes == {CMD_ENTITY_SPAWN, CMD_ENTITY_SPAWN_UNTRACKED, CMD_ENTITY_CLONE}

----------------------------------------------------------------------------
(* CLONE sets the destination up from the prototype *)

\* C11: when a CLONE command whose destination is a reserved slot and whose
\* prototype is alive is processed, the destination becomes active with the
\* prototype's component mask, at the spawn position of the command, with
\* velocity zero and animation timer zero.
C11_CloneSetsUpDestination ==
    [][(/\ lastOp' = "Process"
        /\ hist'.cmd.type = CMD_ENTITY_CLONE
        /\ hist'.cmd.entity \in hist.reserved
        /\ EntityRegistry_IsAlive(reg, hist'.cmd.proto))
       => LET dst == hist'.cmd.entity.id
              src == hist'.cmd.proto.id
          IN /\ FLAG_ACTIVE \in reg'.state_flags[dst]
             /\ reg'.component_masks[dst] = reg.component_masks[src]
             /\ reg'.pos[dst] = hist'.cmd.val
             /\ reg'.vel[dst] = 0
             /\ reg'.anim_timers[dst] = 0]_vars

\* a clone of a prototype that has moved and animated, placed elsewhere
C11_Witness ==
    /\ lastOp = "Process"
    /\ hist.cmd.type = CMD_ENTITY_CLONE
    /\ EntityRegistry_IsAlive(reg, hist.cmd.entity)
    /\ EntityRegistry_IsAlive(reg, hist.cmd.proto)
    /\ reg.vel[hist.cmd.proto.id] = SPAWNER_VEL
    /\ reg.anim_timers[hist.cmd.proto.id] = 1
    /\ reg.pos[hist.cmd.proto.id] # reg.pos[hist.cmd.entity.id]
    /\ reg.vel[hist.cmd.entity.id] = 0

----------------------------------------------------------------------------
(* Capacity and slot reuse *)

\* C12 as stated: a Create on a registry holding MAX_ENTITIES entities
\* returns ENTITY_INVALID, and the Create that follows a Destroy which took
\* effect returns the destroyed entity's id with a generation exactly one
\* greater.
C12_FullThenReuseWithNextGeneration ==
    [][(lastOp' = "Create")
       => /\ (reg.active_count = MAX_ENTITIES => lastRet' = ENTITY_INVALID)
          /\ (lastOp = "Destroy" /\ hist.took)
                => /\ lastRet'.id = lastRet.id
                   /\ lastRet'.generation = lastRet.generation + 1]_vars

\* C12, amended: a Create on a registry holding MAX_ENTITIES entities returns
\* ENTITY_INVALID and changes nothing, and the Create that follows a Destroy
\* which took effect returns the destroyed entity's id with the generation
\* one greater in the generation counter's unsigned arithmetic (the largest
\* generation is followed by 0).
C12_FullThenReuseWithNextGenerationModulo ==
    [][(lastOp' = "Create")
       => /\ (reg.active_count = MAX_ENTITIES
                => lastRet' = ENTITY_INVALID /\ reg' = reg)
          /\ (lastOp = "Destroy" /\ hist.took)
                => /\ lastRet'.id = lastRet.id
                   /\ lastRet'.generation = (lastRet.generation + 1) % GenMod]_vars

\* the registry was filled, one entity was destroyed, its slot was handed out
\* again, and a further Create has just been refused
C12_Witness ==
    /\ lastOp = "Create"
    /\ lastRet = ENTITY_INVALID
    /\ reg.active_count = MAX_ENTITIES
    /\ \E d \in hist.destroyed :
         /\ FLAG_ACTIVE \in reg.state_flags[d.e.id]
         /\ reg.generations[d.e.id] = (d.e.generation + 1) % GenMod

----------------------------------------------------------------------------
(* Reset *)

\* C13: a handle issued before an EntityManager_Reset is invalid after the
\* Reset and stays invalid whatever Creates follow.
C13_HandlesFromBeforeResetStayInvalid ==
    \A e \in hist.stale : ~EntityManager_IsValid(reg, e)

----------------------------------------------------------------------------
(* Destroy of an invalid handle *)

\* C14: EntityManager_Destroy called with a handle that is not valid (id out
\* of range, slot not active, generation mismatch, or a handle destroyed
\* before) changes nothing in the registry: generations, flags, free list,
\* free_count and active_count are as they were.
C14_DestroyOfInvalidHandleIsNoOp ==
    [][(lastOp' = "Destroy" /\ ~EntityManager_IsValid(reg, lastRet'))
       => reg' = reg]_vars

\* Destroy was just called with a stale handle whose slot is live again
\* under a newer generation
C14_Witness ==
    /\ lastOp = "Destroy"
    /\ ~hist.took
    /\ lastRet \in hist.issued
    /\ FLAG_ACTIVE \in reg.state_flags[lastRet.id]
    /\ reg.generations[lastRet.id] # lastRet.generation
    /\ reg.active_count > 0

----------------------------------------------------------------------------
(* Commands whose target is not alive *)

\* C15: a DESTROY, ADD_COMPONENT, REMOVE_COMPONENT, SET_PIVOT, SET_TYPE,
\* flag-set, flag-clear or PHYS_DEFINE command whose target entity is not
\* alive when it is processed leaves every field of the registry unchanged.
C15_CommandOnDeadTargetIsNoOp ==
    [][(/\ lastOp' = "Process"
        /\ hist'.cmd.type \in CmdTypes \ {CMD_ENTITY_CLONE}
        /\ ~EntityManager_IsValid(reg, hist'.cmd.entity))
       => reg' = reg]_vars

----------------------------------------------------------------------------
(* The hooks of DESTROY, and the hook tables during dispatch *)

\* the callbacks in the first count entries of a table, in order
SubscribedSeq(t) == [k \in 1..t.count |-> t.hooks[k - 1]]

\* C16: when a DESTROY of a live entity is processed, every on-destroyed hook
\* is invoked while the entity is still alive, and only after the last hook
\* has returned is the slot cleared, its generation bumped and its id pushed
\* on the free list.
C16_DestroyHooksRunBeforeSlotIsCleared ==
    /\ [](loop.table = "destroy"
            => \A k \in 1..Len(hist.seen) : hist.seen[k].alive)
    /\ [][(pc = "dispatch" /\ loop.table = "destroy" /\ lastOp' # "EndDispatch")
          => LET id == loop.entity.id IN
             /\ reg'.component_masks[id] = reg.component_masks[id]
             /\ reg'.state_flags[id] = reg.state_flags[id]
             /\ reg'.generations[id] = reg.generations[id]
             /\ reg'.free_list = reg.free_list
             /\ reg'.free_count = reg.free_count
             /\ reg'.active_count = reg.active_count]_vars
    /\ [][(lastOp' = "EndDispatch" /\ loop.table = "destroy")
          => LET id == loop.entity.id IN
             /\ EntityManager_IsValid(reg, loop.entity)
             /\ ~hist.called
                  => [k \in 1..Len(hist.seen) |-> hist.seen[k].cb]
                       = SubscribedSeq(hist.begin)
             /\ reg'.component_masks[id] = COMP_NONE
             /\ FLAG_ACTIVE \notin reg'.state_flags[id]
             /\ reg'.generations[id] = (reg.generations[id] + 1) % GenMod
             /\ reg'.free_count = reg.free_count + 1
             /\ reg'.free_list[reg.free_count] = id]_vars

\* a DESTROY has run two hooks and then cleared the slot
C16_Witness ==
    /\ lastOp = "EndDispatch"
    /\ loop.table = "destroy"
    /\ Len(hist.seen) = 2
    /\ lastRet \in hist.issued
    /\ ~EntityManager_IsValid(reg, lastRet)
    /\ reg.free_list[reg.free_count - 1] = lastRet.id

\* C17: Subscribe, Unsubscribe and Clear called on a hook table while that
\* table's dispatch loop runs do not take effect: when the loop ends the
\* table's entries and count are what they were when it began.
C17_TableUnchangedByDispatch ==
    [][(lastOp' = "EndDispatch")
       => /\ reg.events[loop.table].hooks = hist.begin.hooks
          /\ reg.events[loop.table].count = hist.begin.count]_vars

----------------------------------------------------------------------------
(* SpatialHash_Query *)

\* two AABBs overlap: they have a point in common
Overlaps(a, b) ==
    /\ a.x <= b.x + b.w /\ b.x <= a.x + a.w
    /\ a.y <= b.y + b.h /\ b.y <= a.y + a.h

\* the ids a query wrote
Returned == {hist.results[k] : k \in 1..Len(hist.results)}

\* the entities with an insert in a cell of the last query's rectangle
Candidates ==
    {a.id : a \in {a1 \in hist.aabbs : CellSet(a1.rect) \cap CellSet(hist.rect) # {}}}

\* C18 as stated: a query with room for every match returns every entity
\* inserted by AddStatic or AddDynamic (and not removed or cleared since)
\* whose AABB overlaps the query rectangle, and returns no entity that has no
\* insert left in the cells of the query.
C18_QueryReturnsEveryInsertedOverlap ==
    (lastOp = "Query")
      => /\ Cardinality(Candidates) <= hist.maxOut
              => \A a \in hist.aabbs : Overlaps(a.rect, hist.rect) => a.id \in Returned
         /\ Returned \subseteq Candidates

\* C18, amended: the same for the inserts that found a free node for every
\* cell of their AABB.
C18_QueryReturnsEveryWholeInsertedOverlap ==
    (lastOp = "Query")
      => /\ Cardinality(Candidates) <= hist.maxOut
              => \A a \in hist.aabbs :
                   (a.whole /\ Overlaps(a.rect, hist.rect)) => a.id \in Returned
         /\ Returned \subseteq Candidates

\* a query has returned a static and a dynamic entity whose AABBs overlap its
\* rectangle
C18_Witness ==
    /\ lastOp = "Query"
    /\ \E a, b \in hist.aabbs :
         /\ a.layer = "static" /\ b.layer = "dynamic" /\ a.id # b.id
         /\ a.whole /\ b.whole
         /\ Overlaps(a.rect, hist.rect) /\ Overlaps(b.rect, hist.rect)
         /\ {a.id, b.id} \subseteq Returned

\* C19: within one query each entity id is written at most once, also for an
\* entity that spans several cells of the query, was inserted more than once,
\* or is in both layers.
C19_QueryResultsAreDistinct ==
    (lastOp = "Query")
      => \A i, j \in 1..Len(hist.results) :
           i # j => hist.results[i] # hist.results[j]

\* a query over several cells has returned an entity that is in both layers
\* and spans several of those cells
C19_Witness ==
    /\ lastOp = "Query"
    /\ Len(CellsOf(hist.rect)) > 1
    /\ \E a, b \in hist.aabbs :
         /\ a.layer = "static" /\ b.layer = "dynamic" /\ a.id = b.id
         /\ a.whole
         /\ Cardinality(CellSet(a.rect) \cap CellSet(hist.rect)) > 1
         /\ CellSet(b.rect) \cap CellSet(hist.rect) # {}
         /\ a.id \in Returned

\* C20: a query writes at most maxOut entries and returns their number, a
\* value in 0..maxOut; what it writes are the first maxOut entities, in scan
\* order, of those a query with room for all would write.
C20_QueryStopsAtMaxOut ==
    (lastOp = "Query")
      => /\ Len(hist.results) <= hist.maxOut
         /\ lastRet = Len(hist.results)
         /\ lastRet \in 0..hist.maxOut
         /\ Len(hist.results) =
              (IF Len(hist.full) < hist.maxOut THEN Len(hist.full) ELSE hist.maxOut)
         /\ hist.results = SubSeq(hist.full, 1, Len(hist.results))

\* a query found more entities than it had room for
C20_Witness ==
    /\ lastOp = "Query"
    /\ hist.maxOut >= 1
    /\ Len(hist.results) = hist.maxOut
    /\ Len(hist.full) > hist.maxOut
    /\ lastRet = hist.maxOut

----------------------------------------------------------------------------
(* The node pools of the spatial hash *)

\* the entries of a chain, from the bucket head on
RECURSIVE ChainOf(_, _)
ChainOf(nodes, idx) ==
    IF idx = SPATIAL_NULL_IDX THEN <<>>
    ELSE <<[entityID |-> nodes[idx].entityID, gridX |-> nodes[idx].gridX,
            gridY |-> nodes[idx].gridY]>> \o ChainOf(nodes, nodes[idx].nextIdx)

\* the entries of every bucket of a layer
Entries(h, layer) ==
    [b \in 0..(SPATIAL_HASH_SIZE - 1) |->
        IF layer = "static" THEN ChainOf(h.staticNodes, h.staticBuckets[b])
        ELSE ChainOf(h.dynamicNodes, h.dynamicBuckets[b])]

\* the node indices on the static free list, from its head on
RECURSIVE FreeSeq(_, _)
FreeSeq(h, idx) ==
    IF idx = SPATIAL_NULL_IDX THEN <<>>
    ELSE <<idx>> \o FreeSeq(h, h.staticNodes[idx].nextIdx)

\* the entries that inserting cells[1 .. n] for an entity puts in front of
\* bucket b: the last cell inserted comes first
RECURSIVE Linked(_, _, _, _)
Linked(entityID, cells, n, b) ==
    IF n = 0 THEN <<>>
    ELSE (IF GetHashIndex(cells[n].cx, cells[n].cy) = b
          THEN <<[entityID |-> entityID, gridX |-> cells[n].cx, gridY |-> cells[n].cy]>>
          ELSE <<>>) \o Linked(entityID, cells, n - 1, b)

\* C21: an AddStatic or AddDynamic that finds n nodes for an AABB of more
\* than n cells links the first n cells and stops: in every bucket the
\* entries that were there follow the new ones unchanged, the other layer is
\* untouched, and the static free list loses only the nodes that were
\* popped (none for AddDynamic, and none once the pool is exhausted).
C21_ExhaustedPoolKeepsEntries ==
    [][(lastOp' \in {"AddStatic", "AddDynamic"}) =>
        LET layer == IF lastOp' = "AddStatic" THEN "static" ELSE "dynamic"
            other == IF lastOp' = "AddStatic" THEN "dynamic" ELSE "static"
            cells == CellsOf(hist'.rect)
            left  == NodesLeft(hash, layer)
            n     == IF left < Len(cells) THEN left ELSE Len(cells)
            free  == FreeSeq(hash, hash.staticFreeHead)
            pops  == IF layer = "dynamic" THEN 0
                     ELSE IF n < Len(free) THEN n ELSE Len(free)
        IN /\ \A b \in 0..(SPATIAL_HASH_SIZE - 1) :
                Entries(hash', layer)[b] =
                    Linked(lastRet', cells, n, b) \o Entries(hash, layer)[b]
           /\ Entries(hash', other) = Entries(hash, other)
           /\ FreeSeq(hash', hash'.staticFreeHead) = SubSeq(free, pops + 1, Len(free))
           /\ NodesLeft(hash', layer) = left - n
           /\ NodesLeft(hash', other) = NodesLeft(hash, other)]_vars

\* an AddStatic found nodes for some cells of its AABB but not for all, with
\* entries of another entity in the static layer
C21_Witness ==
    /\ lastOp = "AddStatic"
    /\ NodesLeft(hist.before, "static") > 0
    /\ NodesLeft(hist.before, "static") < Len(CellsOf(hist.rect))
    /\ NodesLeft(hash, "static") = 0
    /\ \E b \in 0..(SPATIAL_HASH_SIZE - 1) :
         \E k \in 1..Len(Entries(hash, "static")[b]) :
            Entries(hash, "static")[b][k].entityID # lastRet

\* the entries of every static bucket that are not of one entity
RECURSIVE Without(_, _)
Without(chain, entityID) ==
    IF chain = <<>> THEN <<>>
    ELSE (IF Head(chain).entityID = entityID THEN <<>> ELSE <<Head(chain)>>)
         \o Without(Tail(chain), entityID)

\* what queries with room for every match return, for every rectangle
QueryAll(h) == [q \in Rects |-> SpatialHash_Query(h, q, MAX_ENTITIES).results]

\* C22 as stated: after AddStatic(id, box) followed by RemoveStatic(id, box)
\* no node of id is linked, the queries for every rectangle return what they
\* returned before the add, and as many nodes can be obtained as before the
\* add.
C22_AddThenRemoveRestoresStaticLayer ==
    (lastOp = "RemoveStatic" /\ hist.cycle)
      => /\ \A b \in 0..(SPATIAL_HASH_SIZE - 1) :
              Entries(hash, "static")[b] = Without(Entries(hash, "static")[b], lastRet)
         /\ QueryAll(hash) = QueryAll(hist.before)
         /\ NodesLeft(hash, "static") = NodesLeft(hist.before, "static")

\* C22, amended: the same when id had no node in the static layer before the
\* add; when it had, RemoveStatic unlinks and recycles those nodes too, and
\* the layer is as before the add without the entries of id.
C22_AddThenRemoveRestoresStaticLayerOfNewEntity ==
    (lastOp = "RemoveStatic" /\ hist.cycle)
      => /\ \A b \in 0..(SPATIAL_HASH_SIZE - 1) :
              Entries(hash, "static")[b] =
                  Without(Entries(hist.before, "static")[b], lastRet)
         /\ Entries(hash, "dynamic") = Entries(hist.before, "dynamic")
         /\ NodesLeft(hash, "static") >= NodesLeft(hist.before, "static")
         /\ hist.fresh
              => /\ Entries(hash, "static") = Entries(hist.before, "static")
                 /\ QueryAll(hash) = QueryAll(hist.before)
                 /\ NodesLeft(hash, "static") = NodesLeft(hist.before, "static")

\* an entity new to the static layer was added over several cells, next to
\* another entity's entries, and removed again; its nodes are on the free list
C22_Witness ==
    /\ lastOp = "RemoveStatic" /\ hist.cycle /\ hist.fresh
    /\ Len(CellsOf(hist.rect)) >= 2
    /\ Len(FreeSeq(hash, hash.staticFreeHead)) >= 2
    /\ \E b \in 0..(SPATIAL_HASH_SIZE - 1) : Entries(hash, "static")[b] # <<>>

\* the entities with a static entry in a cell of a rectangle
StaticIn(h, rect) ==
    {e.entityID : e \in
        {e1 \in UNION {{Entries(h, "static")[b][k] :
                           k \in 1..Len(Entries(h, "static")[b])} :
                       b \in 0..(SPATIAL_HASH_SIZE - 1)} :
            [cx |-> e1.gridX, cy |-> e1.gridY] \in CellSet(rect)}}

\* C23: SpatialHash_ClearDynamic empties every dynamic bucket and resets the
\* dynamic pool index; static bucket heads, static nodes, the static pool
\* index and the static free list are unchanged, and a query with room for
\* every match returns exactly the entities of the static layer in its cells.
C23_ClearDynamicKeepsStaticLayer ==
    [][(lastOp' = "ClearDynamic") =>
        /\ hash'.staticBuckets = hash.staticBuckets
        /\ hash'.staticNodes = hash.staticNodes
        /\ hash'.staticPoolIdx = hash.staticPoolIdx
        /\ hash'.staticFreeHead = hash.staticFreeHead
        /\ hash'.dynamicPoolIdx = 0
        /\ \A b \in 0..(SPATIAL_HASH_SIZE - 1) : Entries(hash', "dynamic")[b] = <<>>
        /\ \A q \in Rects :
             LET r == SpatialHash_Query(hash', q, MAX_ENTITIES).results
             IN {r[k] : k \in 1..Len(r)} = StaticIn(hash, q)]_vars

\* ClearDynamic has run on a hash that held dynamic nodes, static entries and
\* recycled static nodes
C23_Witness ==
    /\ lastOp = "ClearDynamic"
    /\ hash.dynamicNodes[0] # ZeroNode
    /\ \E b \in 0..(SPATIAL_HASH_SIZE - 1) : Entries(hash, "static")[b] # <<>>
    /\ hash.staticPoolIdx > 0

----------------------------------------------------------------------------
(* Physics bodies *)

\* C25 as stated: every active body that carries FLAG_STATIC has inv_mass 0.
C25_StaticBodiesHaveNoInverseMass ==
    \A i \in Slots :
        (FLAG_ACTIVE \in reg.state_flags[i] /\ FLAG_STATIC \in reg.state_flags[i])
            => reg.inv_mass[i] = 0

----------------------------------------------------------------------------
(* The debug protocol of the bus *)

\* C26 as stated: in a debug build a push of a command of another domain
\* than the render domain, made while the render pass is applying commands,
\* trips an assertion and is not enqueued.
C26_CrossDomainPushInRenderPhaseIsDetected ==
    (/\ lastOp = "Push" /\ hist.during = "render" /\ ~loop.ndebug
     /\ CmdDomain(hist.cmd.type) # CMD_DOMAIN_RENDER)
        => pc = "aborted"

----------------------------------------------------------------------------
(* The physics update *)

\* a body the integration phase moves: active, with COMP_PHYSICS, neither
\* static nor asleep
Integrated(r, i) ==
    /\ FLAG_ACTIVE \in r.state_flags[i]
    /\ COMP_PHYSICS \in r.component_masks[i]
    /\ r.state_flags[i] \cap {FLAG_STATIC, FLAG_SLEEPING} = {}

\* C24: whenever a step takes an entity that is awake to FLAG_SLEEPING, the
\* step is the integration phase of the physics update, the velocity the
\* phase leaves the body with has a square below PHYS_SLEEP_EPSILON squared,
\* and the body does not carry FLAG_ALWAYS_AWAKE; so no step puts a body
\* that carries FLAG_ALWAYS_AWAKE to sleep.
C24_SleepOnlyWhenSlowAndAllowed ==
    [][\A i \in Slots :
          (/\ FLAG_ACTIVE \in reg.state_flags[i]
           /\ FLAG_SLEEPING \notin reg.state_flags[i]
           /\ FLAG_SLEEPING \in reg'.state_flags[i])
             => /\ lastOp' = "Integrate"
                /\ reg'.vel[i] * reg'.vel[i] < PHYS_SLEEP_EPSILON * PHYS_SLEEP_EPSILON
                /\ FLAG_ALWAYS_AWAKE \notin reg.state_flags[i]]_vars

\* the integration phase has just put one body to sleep and has left
\* another, as slow but carrying FLAG_ALWAYS_AWAKE, awake
C24_Witness ==
    /\ lastOp = "Integrate"
    /\ \E i, j \in Slots :
         /\ Integrated(hist.before, i)
         /\ FLAG_SLEEPING \in reg.state_flags[i]
         /\ Integrated(hist.before, j)
         /\ FLAG_ALWAYS_AWAKE \in reg.state_flags[j]
         /\ reg.vel[j] * reg.vel[j] < PHYS_SLEEP_EPSILON * PHYS_SLEEP_EPSILON
         /\ FLAG_SLEEPING \notin reg.state_flags[j]

\* the phases of one update in the order the claim gives
RECURSIVE Rounds(_)
Rounds(n) == IF n = 0 THEN <<>> ELSE <<"detect", "resolve">> \o Rounds(n - 1)
RECURSIVE SubStepPhases(_)
SubStepPhases(n) ==
    IF n = 0 THEN <<>>
    ELSE <<"integrate", "broad">> \o Rounds(PHYS_SOLVER_ITERATIONS) \o SubStepPhases(n - 1)
Pipeline == <<"commands">> \o SubStepPhases(PHYS_SUB_STEPS)

\* every CMD_PHYS_DEFINE that was pending has configured its body: the last
\* one for a slot decides whether the slot carries FLAG_STATIC
DefinesApplied ==
    \A k \in 1..Len(hist.pending) :
       LET cmd == hist.pending[k] IN
       (/\ cmd.type = CMD_PHYS_DEFINE
        /\ cmd.entity.id < MAX_ENTITIES
        /\ \A l \in (k + 1)..Len(hist.pending) :
              ~(hist.pending[l].type = CMD_PHYS_DEFINE
                /\ hist.pending[l].entity.id = cmd.entity.id))
          => (FLAG_STATIC \in reg.state_flags[cmd.entity.id] <=> PhysDefIsStatic(cmd))

\* C28 as stated: the phases an update has run are a prefix of the pipeline;
\* right after phase 0 the pending commands have been applied; and every
\* call of PhysicsSystem_Update that has returned has run the whole pipeline.
C28_EveryUpdateRunsThePipeline ==
    /\ IsPrefix(hist.trace, Pipeline)
    /\ (lastOp = "Update" /\ pc = "integrate") => DefinesApplied
    /\ ((lastOp = "Update" /\ pc = "logic") \/ pc = "cleanup") => hist.trace = Pipeline

\* C28, amended: a call with dt > 0 runs phase 0 once, applying the pending
\* commands before any integration, and then the sub-steps in the order of
\* the pipeline; a call with dt <= 0 returns at once, runs no phase and
\* leaves the pending commands unapplied.
C28_UpdateWithPositiveDtRunsThePipeline ==
    /\ IsPrefix(hist.trace, Pipeline)
    /\ (lastOp = "Update" /\ hist.dt > 0)
          => pc = "integrate" /\ hist.trace = <<"commands">> /\ DefinesApplied
    /\ pc = "cleanup" => hist.trace = Pipeline /\ hist.dt > 0
    /\ (lastOp = "Update" /\ hist.dt <= 0)
          => pc = "logic" /\ hist.trace = <<>> /\ reg = hist.before

\* an update that had a CMD_PHYS_DEFINE to apply has run its last phase
C28_Witness ==
    /\ pc = "cleanup"
    /\ hist.trace = Pipeline
    /\ \E k \in 1..Len(hist.pending) : hist.pending[k].type = CMD_PHYS_DEFINE

\* a body the solver can move: no FLAG_STATIC and a positive inverse mass
Dynamic(r, i) == FLAG_STATIC \notin r.state_flags[i] /\ r.inv_mass[i] > 0

Max(a, b) == IF a >= b THEN a ELSE b

\* C29 as stated: in the contact stream a detect pass has just built, a
\* contact between two dynamic bodies has idA < idB unless the body with the
\* higher index is asleep, and no unordered pair of bodies appears twice.
C29_NoPairIsRecordedTwice ==
    lastOp = "Detect" =>
       /\ \A k \in 1..Len(phys.contacts) :
             LET c == phys.contacts[k] IN
             (Dynamic(reg, c.idA) /\ Dynamic(reg, c.idB))
                => \/ c.idA < c.idB
                   \/ FLAG_SLEEPING \in reg.state_flags[Max(c.idA, c.idB)]
       /\ \A k, l \in 1..Len(phys.contacts) :
             k < l => {phys.contacts[k].idA, phys.contacts[k].idB}
                         # {phys.contacts[l].idA, phys.contacts[l].idB}

\* the narrow phase on the positions of r: the circles of a and b overlap
Overlap(r, a, b) ==
    LET c == CheckCircle_Circle(r.pos[a], r.size[a] \div 2, r.pos[b], r.size[b] \div 2)
    IN /\ COMP_COLLISION_Circle \in r.component_masks[a]
       /\ COMP_COLLISION_Circle \in r.component_masks[b]
       /\ c.collided /\ c.overlap > 0

\* in the registry r, b is a sleeping dynamic body that overlaps the awake
\* body a, and the pair passes the layer/mask test
SleeperMeetsAwake(r, a, b) ==
    /\ a # b
    /\ FLAG_ACTIVE \in r.state_flags[a] /\ COMP_PHYSICS \in r.component_masks[a]
    /\ FLAG_SLEEPING \notin r.state_flags[a]
    /\ FLAG_ACTIVE \in r.state_flags[b] /\ COMP_PHYSICS \in r.component_masks[b]
    /\ FLAG_SLEEPING \in r.state_flags[b] /\ FLAG_STATIC \notin r.state_flags[b]
    /\ Overlap(r, a, b)
    /\ ShouldCollide(r.state_flags[a], r.state_flags[b])

\* the broad phase reports b among the neighbours of a
Reported(h, r, a, b) ==
    LET q == SpatialHash_Query(h, BodyRect(r, a), PHYS_MAX_NEIGHBOURS)
    IN \E k \in 1..Len(q.results) : q.results[k] = b

\* the bodies woken in a sub-step are moved by the next integration phase
WokenAreIntegrated ==
    lastOp = "Integrate" =>
       \A b \in hist.woken :
          /\ Integrated(hist.before, b)
          /\ reg.pos[b] = hist.before.pos[b] + (reg.vel[b] * phys.subDt) \div Unit

\* C30 as stated: at the end of a solver round every dynamic body that was
\* asleep at its start and overlapped an awake body passing the layer/mask
\* test is awake, and the next integration phase moves the woken bodies.
C30_OverlappedSleeperIsWoken ==
    /\ lastOp = "Resolve" =>
          \A a, b \in Slots : SleeperMeetsAwake(hist.before, a, b)
                                   => FLAG_SLEEPING \notin reg.state_flags[b]
    /\ WokenAreIntegrated

\* C30, amended: the same when the awake body is itself dynamic (only bodies
\* without FLAG_STATIC look for contacts) and the broad phase reports the
\* sleeping body among its neighbours.
C30_ReportedSleeperIsWoken ==
    /\ lastOp = "Resolve" =>
          \A a, b \in Slots :
             (/\ SleeperMeetsAwake(hist.before, a, b)
              /\ FLAG_STATIC \notin hist.before.state_flags[a]
              /\ Reported(hash, hist.before, a, b))
                => FLAG_SLEEPING \notin reg.state_flags[b]
    /\ WokenAreIntegrated

\* a body woken by a contact has just been moved by the integration phase
C30_Witness ==
    /\ lastOp = "Integrate"
    /\ \E b \in hist.woken : reg.pos[b] # hist.before.pos[b]

----------------------------------------------------------------------------
(* The contact solver *)

\* the pair of C27: A dynamic at 0, B static at 10, both of radius 8, at rest
C27_Pair(r) ==
    /\ r.pos[0] = 0 /\ r.pos[1] = 10 * Unit
    /\ r.size[0] = 16 * Unit /\ r.size[1] = 16 * Unit
    /\ r.inv_mass[0] > 0 /\ FLAG_STATIC \in r.state_flags[1]
    /\ r.vel[0] = 0 /\ r.vel[1] = 0

----------------------------------------------------------------------------
(* The broad phase *)

\* body i is one Phase2_BroadPhase inserts
InBroadPhase(r, i) ==
    /\ FLAG_ACTIVE \in r.state_flags[i]
    /\ COMP_PHYSICS \in r.component_masks[i]
    /\ r.state_flags[i] \cap {FLAG_STATIC, FLAG_CULLED} = {}

\* the (entity, cell) entries linked in the dynamic layer
DynamicEntries(h) ==
    UNION {{Entries(h, "dynamic")[b][k] : k \in 1..Len(Entries(h, "dynamic")[b])} :
             b \in 0..(SPATIAL_HASH_SIZE - 1)}

\* the number of nodes linked in the dynamic layer
RECURSIVE DynamicLinked(_, _)
DynamicLinked(h, b) ==
    IF b >= SPATIAL_HASH_SIZE THEN 0
    ELSE Len(Entries(h, "dynamic")[b]) + DynamicLinked(h, b + 1)

\* the (entity, cell) entries of the cells the AABBs of the bodies cover
BodyCells(r) ==
    UNION {{[entityID |-> i, gridX |-> Int16(CellsOf(BodyRect(r, i))[k].cx),
             gridY |-> Int16(CellsOf(BodyRect(r, i))[k].cy)] :
               k \in 1..Len(CellsOf(BodyRect(r, i)))} :
             i \in {s \in Slots : InBroadPhase(r, s)}}

\* C31 as stated: after a broad phase the dynamic layer holds exactly the
\* active, non-static, non-culled physics bodies at the cells of their
\* current AABBs, each once.
C31_DynamicLayerIsExactlyTheBodies ==
    lastOp = "BroadPhase"
      => /\ DynamicEntries(hash) = BodyCells(reg)
         /\ DynamicLinked(hash, 0) = Cardinality(BodyCells(reg))

\* C31, amended: after a broad phase every entry of the dynamic layer is a
\* cell of the current AABB of an active, non-static, non-culled physics
\* body, linked once, so nothing of a destroyed, culled or static body is
\* left; the layer holds all those cells when they are at most
\* SPATIAL_MAX_DYNAMIC, and SPATIAL_MAX_DYNAMIC of them otherwise.  The
\* static layer is as it was.
C31_DynamicLayerHoldsOnlyTheBodies ==
    lastOp = "BroadPhase"
      => LET cells == Cardinality(BodyCells(reg)) IN
         /\ DynamicEntries(hash) \subseteq BodyCells(reg)
         /\ DynamicLinked(hash, 0) = Cardinality(DynamicEntries(hash))
         /\ DynamicLinked(hash, 0) =
                IF cells <= SPATIAL_MAX_DYNAMIC THEN cells ELSE SPATIAL_MAX_DYNAMIC
         /\ cells <= SPATIAL_MAX_DYNAMIC => DynamicEntries(hash) = BodyCells(reg)
         /\ Entries(hash, "static") = Entries(hist.layer, "static")

\* a broad phase after which a body the previous one had inserted is gone
\* from the layer, destroyed, culled or static by now, and another body is
\* in the layer
C31_Witness ==
    /\ lastOp = "BroadPhase"
    /\ \E old \in DynamicEntries(hist.layer) :
         /\ ~InBroadPhase(reg, old.entityID)
         /\ \A e \in DynamicEntries(hash) : e.entityID # old.entityID
    /\ DynamicEntries(hash) # {}

----------------------------------------------------------------------------
(* The counters of the registry *)

\* the slots whose ACTIVE flag is set
ActiveSlots(r) == {i \in Slots : FLAG_ACTIVE \in r.state_flags[i]}

\* C32: active_count is the number of slots whose ACTIVE flag is set, after
\* any sequence of Create, Destroy, Reset and processed entity commands.
C32_ActiveCountIsNumberOfActiveSlots ==
    reg.active_count = Cardinality(ActiveSlots(reg))

\* the ids on the free list, bottom first
FreeSlots(r) == [k \in 1..r.free_count |-> r.free_list[k - 1]]

\* the destinations of the SPAWN and CLONE commands pushed and not yet
\* handled by the entity system
PendingSlots == {e.id : e \in hist.reserved \ hist.idle}

\* every slot reserved and neither set up nor returned yet
ReservedSlots == {e.id : e \in hist.reserved}

----------------------------------------------------------------------------
(* Iterators flushed in any order *)

\* the end of the iterator lies between tail and head
InWindow(b, it) == U32Sub(it.end, b.tail) <= CommandBus_Count(b)

\* C34 as stated: whatever iterator is flushed, tail does not move
\* backwards (it moves to a position between tail and head) and
\* head - tail stays between 0 and the capacity.
C34_TailNeverMovesBackwards ==
    [][/\ CommandBus_Count(bus') <= CMD_BUFFER_SIZE
       /\ U32Sub(bus'.tail, bus.tail) <= CommandBus_Count(bus)]_vars

\* C34, amended: that holds for a Flush whose iterator ends between tail and
\* head, as every iterator taken since the last Flush does; Push,
\* GetIterator and Next leave tail alone, and an accepted Push writes no
\* cell between tail and head.  A Flush with an iterator that ends before
\* tail moves tail backwards, and head - tail can exceed the capacity.
C34_FlushInsideTheWindowKeepsTheBounds ==
    [][(/\ CommandBus_Count(bus) <= CMD_BUFFER_SIZE
        /\ lastOp' = "flush" => InWindow(bus, iter'))
         => /\ CommandBus_Count(bus') <= CMD_BUFFER_SIZE
            /\ U32Sub(bus'.tail, bus.tail) <= CommandBus_Count(bus)
            /\ lastOp' # "flush" => bus'.tail = bus.tail
            /\ lastOp' = "push"
                 => \A k \in 0..(CommandBus_Count(bus) - 1) :
                      bus'.buffer[MaskIndex(bus.tail + k)] =
                          bus.buffer[MaskIndex(bus.tail + k)]]_vars

\* a Flush with the older of two iterators, both ending between tail and
\* head: tail has moved and commands pushed since are left on the bus
C34_Witness ==
    /\ lastOp = "flush"
    /\ InWindow(hist.before, iter)
    /\ CommandBus_Count(hist.before) <= CMD_BUFFER_SIZE
    /\ bus.tail # hist.before.tail
    /\ ~CommandBus_IsEmpty(bus)
    /\ \E other \in hist.held : other.end # iter.end /\ InWindow(hist.before, other)

----------------------------------------------------------------------------
(* The per-entity loops *)

\* C35: the loops bounded by max_used_bound read the registry only at
\* indices below the capacity, also once the highest slot has been used.
C35_LoopsReadOnlySlotsOfTheRegistry ==
    /\ \A i \in hist.reads : i < MAX_ENTITIES
    /\ ~reg.oob

----------------------------------------------------------------------------
(* Handles of reservations that came to nothing *)

\* C36: a handle from ReserveSlot whose CLONE command has just failed
\* validation, so that its slot went back on the free list, does not test
\* alive after the next operation either, whatever that operation is, also
\* when it hands the slot out again.
C36_FailedReservationStaysDead ==
    [][(/\ lastOp = "Process"
        /\ hist.cmd.type = CMD_ENTITY_CLONE
        /\ ~EntityRegistry_IsAlive(reg, hist.cmd.entity))
         => ~EntityRegistry_IsAlive(reg', hist.cmd.entity)]_vars


(* Commands that follow the SPAWN of their entity *)

\* The slots of the ring that hold a command, as offsets from the tail.
WindowOffsets(b) == {k \in 0..(CMD_BUFFER_SIZE - 1) : k < CommandBus_Count(b)}

SlotAt(b, k) == b.buffer[MaskIndex((b.tail + k) % CounterMod)]

\* The SPAWN or CLONE commands in the ring that set up the entity of c and
\* were pushed before c.
SpawnsBefore(b, c) ==
    {k \in WindowOffsets(b) : /\ SlotAt(b, k).type \in SpawnTypes
                              /\ SlotAt(b, k).entity = c.entity
                              /\ SlotAt(b, k).uid < c.uid}

\* c is an entity command pushed after the SPAWN of the entity it targets.
FollowsItsSpawn(b, c) ==
    /\ c.type \notin SpawnTypes
    /\ CmdDomain(c.type) = CMD_DOMAIN_ENTITY
    /\ SpawnsBefore(b, c) # {}

\* A DESTROY of the same entity was pushed between that SPAWN and c.
DestroyedSinceItsSpawn(b, c) ==
    \E k \in SpawnsBefore(b, c), j \in WindowOffsets(b) :
       /\ SlotAt(b, j).type = CMD_ENTITY_DESTROY
       /\ SlotAt(b, j).entity = c.entity
       /\ SlotAt(b, k).uid < SlotAt(b, j).uid
       /\ SlotAt(b, j).uid < c.uid

HookTableWellFormed(t) ==
    /\ t.count \in 0..MAX_HOOKS
    /\ \A i \in 0..(t.count - 1) : t.hooks[i] # NULL
    /\ \A i, j \in 0..(t.count - 1) : i # j => t.hooks[i] # t.hooks[j]

\* s with its entries equal to cb taken out, the others in their order
RECURSIVE SeqWithout(_, _)
SeqWithout(s, cb) ==
    IF s = <<>> THEN <<>>
    ELSE IF Head(s) = cb THEN SeqWithout(Tail(s), cb)
    ELSE <<Head(s)>> \o SeqWithout(Tail(s), cb)

InTable(t, cb) == \E i \in 0..(t.count - 1) : t.hooks[i] = cb

\* what an Unsubscribe the game has just made did to its table
UnsubscribeKeepsOrder ==
    (lastOp' = "Api" /\ hist'.op.kind = "Unsubscribe")
      => LET t  == reg.events[hist'.op.table]
             t2 == reg'.events[hist'.op.table]
         IN /\ SubscribedSeq(t2) = SeqWithout(SubscribedSeq(t), hist'.op.cb)
            /\ lastRet' = InTable(t, hist'.op.cb)
            /\ pc' = pc

\* C38 as the specification states it: in each hook table count stays
\* between 0 and MAX_HOOKS and the entries below count are non-null and
\* pairwise distinct; a Subscribe of a callback that is present, or into a
\* full table, returns false and changes nothing; an Unsubscribe keeps the
\* order of the hooks that remain.
C38_SubscribeIntoFullTableReturnsFalse ==
    [][/\ \A table \in Tables : HookTableWellFormed(reg'.events[table])
       /\ UnsubscribeKeepsOrder
       /\ (lastOp' = "Api" /\ hist'.op.kind = "Subscribe")
            => LET t == reg.events[hist'.op.table] IN
               (InTable(t, hist'.op.cb) \/ t.count >= MAX_HOOKS)
                 => /\ pc' = pc
                    /\ lastRet' = FALSE
                    /\ reg' = reg]_vars

\* C38, amended: the same, but a Subscribe of a new callback into a full
\* table returns false only in a build without asserts; in a build with
\* asserts it stops the program.  In both builds the table is unchanged, and
\* a Subscribe with room appends the callback and returns true.
C38_SubscribeIntoFullTableReturnsFalseOrAborts ==
    [][/\ \A table \in Tables : HookTableWellFormed(reg'.events[table])
       /\ UnsubscribeKeepsOrder
       /\ (lastOp' = "Api" /\ hist'.op.kind = "Subscribe")
            => LET t  == reg.events[hist'.op.table]
                   t2 == reg'.events[hist'.op.table]
               IN IF InTable(t, hist'.op.cb)
                  THEN pc' = pc /\ lastRet' = FALSE /\ reg' = reg
                  ELSE IF t.count >= MAX_HOOKS
                  THEN /\ reg' = reg
                       /\ IF loop.ndebug THEN pc' = pc /\ lastRet' = FALSE
                          ELSE pc' = "aborted"
                  ELSE /\ pc' = pc
                       /\ lastRet' = TRUE
                       /\ SubscribedSeq(t2) = Append(SubscribedSeq(t), hist'.op.cb)]_vars

\* The game has unsubscribed one of the two hooks of a table: the other one
\* is the table's only entry.
C38_Witness ==
    /\ lastOp = "Api"
    /\ hist.op.kind = "Unsubscribe"
    /\ lastRet = TRUE
    /\ reg.events[hist.op.table].count = 1
    /\ reg.events[hist.op.table].hooks[0] # NULL
    /\ reg.events[hist.op.table].hooks[0] # hist.op.cb
    /\ reg.events[hist.op.table].hooks[1] = NULL


(* The bus when its counters wrap around *)

\* the commands in the ring from tail to head, oldest first
WindowSeq(b) ==
    [k \in 1..CommandBus_Count(b) |-> b.buffer[MaskIndex((b.tail + k - 1) % CounterMod)]]

\* C39: the bus keeps FIFO order, Count is head - tail, and the full and
\* empty tests are right, for any number of pushes and flushes, also when the
\* free-running counters have wrapped and head is numerically below tail:
\* the ring holds the commands pushed and not yet flushed in push order,
\* Count is their number, IsEmpty and IsFull say whether there are none or
\* CMD_BUFFER_SIZE of them, a Push fails exactly on a full ring, and a pass
\* hands out its snapshot in push order.
C39_BusIsRightAcrossCounterWrap ==
    /\ WindowSeq(bus) = shadow
    /\ CommandBus_Count(bus) = Len(shadow)
    /\ CommandBus_Count(bus) <= CMD_BUFFER_SIZE
    /\ CommandBus_IsEmpty(bus) <=> (Len(shadow) = 0)
    /\ CommandBus_IsFull(bus) <=> (Len(shadow) = CMD_BUFFER_SIZE)
    /\ (lastOp = "push" /\ ~lastRet) => Len(shadow) = CMD_BUFFER_SIZE
    /\ pc \in {"pass", "done"}
         => /\ IsPrefix(yielded, snap)
            /\ Len(yielded) + CommandIterator_Remaining(iter) = Len(snap)
    /\ pc = "done" => yielded = snap

\* A pass has handed out, in push order, the two commands of a full ring
\* whose head had wrapped to below its tail.
C39_Witness ==
    /\ pc = "done"
    /\ bus.head < bus.tail
    /\ CommandBus_IsFull(bus)
    /\ Len(yielded) = CMD_BUFFER_SIZE
    /\ yielded = shadow
    /\ yielded[1] # yielded[2]


(* The node pools of the spatial hash *)

\* the node indices met from idx on by following nextIdx, at most fuel of them
RECURSIVE NodeWalk(_, _, _)
NodeWalk(nodes, idx, fuel) ==
    IF idx = SPATIAL_NULL_IDX \/ fuel = 0 THEN <<>>
    ELSE <<idx>> \o NodeWalk(nodes, nodes[idx].nextIdx, fuel - 1)

\* the walk from idx comes to SPATIAL_NULL_IDX, over nodes of the pool, and
\* meets no node twice
EndsWithoutCycle(nodes, idx, max) ==
    LET w == NodeWalk(nodes, idx, max + 1) IN
    /\ Len(w) <= max
    /\ \A k \in 1..Len(w) : w[k] \in 0..(max - 1)
    /\ \A k, l \in 1..Len(w) : k # l => w[k] # w[l]

Buckets == 0..(SPATIAL_HASH_SIZE - 1)

\* the number of places a static node is in: bucket chains and the free list
PlacesOfStaticNode(h, n) ==
    Cardinality({b \in Buckets :
                   \E k \in 1..Len(NodeWalk(h.staticNodes, h.staticBuckets[b], SPATIAL_MAX_STATIC)) :
                      NodeWalk(h.staticNodes, h.staticBuckets[b], SPATIAL_MAX_STATIC)[k] = n})
    + (IF \E k \in 1..Len(NodeWalk(h.staticNodes, h.staticFreeHead, SPATIAL_MAX_STATIC)) :
             NodeWalk(h.staticNodes, h.staticFreeHead, SPATIAL_MAX_STATIC)[k] = n
       THEN 1 ELSE 0)

\* C40: after any sequence of AddStatic, AddDynamic, RemoveStatic,
\* ClearDynamic and ClearAll, every bucket chain of either layer and the
\* static free list end after finitely many nodes without meeting a node
\* twice, and every static node the pool has handed out is in exactly one
\* place: one bucket chain or the free list.  Nodes not handed out are in
\* none.
C40_ChainsAreAcyclicAndNodesInOnePlace ==
    /\ \A b \in Buckets :
          /\ EndsWithoutCycle(hash.staticNodes, hash.staticBuckets[b], SPATIAL_MAX_STATIC)
          /\ EndsWithoutCycle(hash.dynamicNodes, hash.dynamicBuckets[b], SPATIAL_MAX_DYNAMIC)
    /\ EndsWithoutCycle(hash.staticNodes, hash.staticFreeHead, SPATIAL_MAX_STATIC)
    /\ \A n \in 0..(SPATIAL_MAX_STATIC - 1) :
          PlacesOfStaticNode(hash, n) = IF n < hash.staticPoolIdx THEN 1 ELSE 0
    /\ \A b \in Buckets :
          \A k \in 1..Len(NodeWalk(hash.dynamicNodes, hash.dynamicBuckets[b], SPATIAL_MAX_DYNAMIC)) :
             NodeWalk(hash.dynamicNodes, hash.dynamicBuckets[b], SPATIAL_MAX_DYNAMIC)[k]
                < hash.dynamicPoolIdx

\* Every static node has been handed out; a RemoveStatic has put one on the
\* free list and left a chain of two.
C40_Witness ==
    /\ lastOp = "RemoveStatic"
    /\ hash.staticPoolIdx = SPATIAL_MAX_STATIC
    /\ Len(NodeWalk(hash.staticNodes, hash.staticFreeHead, SPATIAL_MAX_STATIC)) = 1
    /\ \E b \in Buckets :
          Len(NodeWalk(hash.staticNodes, hash.staticBuckets[b], SPATIAL_MAX_STATIC)) = 2

====
